---- MODULE Spec2Model ----
(***************************************************************************)
(* A model of the TikTok profile scraper: the request engine of            *)
(* src/src/api.js (class TikTokAPI: session state, block detection,        *)
(* rotation), the normalizer (safeNumber, the engagement rate of           *)
(* parseProfileFromHtml) and the two main programs that drive the engine   *)
(* (src/src/main.js and the later main of src/unnamed/part_002).           *)
(*                                                                         *)
(* JavaScript numbers are modelled as exact integers.  TLC's integers are  *)
(* 32 bits wide and the code adds 2^32, so a number is a sign and a        *)
(* magnitude of three limbs in base 10^9 (least significant first).        *)
(***************************************************************************)
EXTENDS Integers, Sequences, FiniteSets, TLC

VARIABLES
    norm,   \* a call of the normalizer: the located userData and stats, the profile
    sn,     \* a call of safeNumber: its arguments and its result
    eng,    \* the TikTokAPI instance: its session state
    last,   \* the engine call made by the last step: what was sent, what came back
    run,    \* a run of main: its input, its place in the loop, what it has stored
    pace,   \* what applyDelay did in the last call: the delay, the time since
            \* lastRequestTime, the wait
    qual,   \* one located subtree normalized twice: the subtree, the two times,
            \* the profile and the quality report of each time
    loc,    \* a call of parseProfileFromHtml: the containers of the page, the
            \* containers it read, the subtree it took
    hdr,    \* the signer in use: the user-agent it gave, the headers it built
    ser,    \* a run seen at its awaits: where main is, the engine calls begun
            \* and their progress, the clock
    inp,    \* the input of the later main: the usernames and urls given, the
            \* usernames collected, those passed to the engine, the dataset
    links,  \* a call of extractBioLinks: the bio, the bioLink, the list built
    fpr,    \* an engine and the fingerprint values of the requests it has sent
    dev,    \* a call of generateDeviceId: the random bytes, the id
    shr,    \* one engine shared by two callers: their calls and the clock
    walk    \* a call of findUserData: the JSON value, what was examined, the result

vars == <<norm, sn, eng, last, run, pace, qual, loc, hdr, ser, inp, links, fpr, dev, shr, walk>>

\* ------------------------------------------------------------- numbers

Base == 10^9

MagZero == <<0, 0, 0>>

MagOne == <<1, 0, 0>>

MagLt(a, b) ==
    \/ a[3] < b[3]
    \/ a[3] = b[3] /\ a[2] < b[2]
    \/ a[3] = b[3] /\ a[2] = b[2] /\ a[1] < b[1]

MagAdd(a, b) ==
    LET s1 == a[1] + b[1]
        s2 == a[2] + b[2] + (s1 \div Base)
    IN  <<s1 % Base, s2 % Base, a[3] + b[3] + (s2 \div Base)>>

\* a - b for a >= b
MagSub(a, b) ==
    LET d1 == a[1] - b[1]
        w1 == IF d1 < 0 THEN 1 ELSE 0
        d2 == a[2] - b[2] - w1
        w2 == IF d2 < 0 THEN 1 ELSE 0
    IN  <<d1 + w1 * Base, d2 + w2 * Base, a[3] - b[3] - w2>>

RECURSIVE MagMul(_, _)
\* a * k for a small natural k
MagMul(a, k) ==
    IF k = 0 THEN MagZero
    ELSE LET h == MagMul(a, k \div 2)
             d == MagAdd(h, h)
         IN  IF k % 2 = 1 THEN MagAdd(d, a) ELSE d

\* one quotient bit: take m out of the remainder of s when it fits
DivStep(s, m, bit) ==
    IF MagLt(s.r, m) THEN s ELSE [d |-> s.d + bit, r |-> MagSub(s.r, m)]

RECURSIVE MagDivMod(_, _)
\* quotient and remainder of a by b > 0 (long division, four bits a level).
\* The operands of each level are bound to their values ({e} has one element),
\* which keeps TLC's evaluation stack shallow.
MagDivMod(a, b) ==
    IF MagLt(a, b) THEN [q |-> MagZero, r |-> a]
    ELSE LET Digit(h, b2, b4, b8) ==
                 LET s == DivStep(DivStep(DivStep(DivStep([d |-> 0, r |-> h.r],
                                                          b8, 8), b4, 4), b2, 2), b, 1)
                 IN  [q |-> MagAdd(MagMul(h.q, 16), <<s.d, 0, 0>>), r |-> s.r]
             Level(b2) ==
                 UNION {UNION {{Digit(h, b2, b4, b8) :
                                  h \in {MagDivMod(a, MagAdd(b8, b8))}} :
                               b8 \in {MagAdd(b4, b4)}} :
                        b4 \in {MagAdd(b2, b2)}}
         IN  CHOOSE res \in UNION {Level(b2) : b2 \in {MagAdd(b, b)}} : TRUE

\* A number: sign and magnitude; zero is never negative.
Num(neg, mag) == [neg |-> neg /\ mag # MagZero, mag |-> mag]

\* The number of a TLC integer i, |i| < 10^9
N(i) == Num(i < 0, <<IF i < 0 THEN -i ELSE i, 0, 0>>)

Zero == N(0)

NumNeg(x) == Num(~x.neg, x.mag)

NumAdd(x, y) ==
    IF x.neg = y.neg THEN Num(x.neg, MagAdd(x.mag, y.mag))
    ELSE IF MagLt(x.mag, y.mag) THEN Num(y.neg, MagSub(y.mag, x.mag))
    ELSE Num(x.neg, MagSub(x.mag, y.mag))

NumLt(x, y) ==
    IF x.neg /\ ~y.neg THEN TRUE
    ELSE IF ~x.neg /\ y.neg THEN FALSE
    ELSE IF x.neg THEN MagLt(y.mag, x.mag)
    ELSE MagLt(x.mag, y.mag)

NumGt(x, y) == NumLt(y, x)

NumLe(x, y) == ~NumLt(y, x)

\* 4294967296 = 2^32, the constant of safeNumber
TwoPow32 == Num(FALSE, <<294967296, 4, 0>>)

\* 1000000000, the followers ceiling of safeNumber
FollowersCeiling == Num(FALSE, <<0, 1, 0>>)

\* 100000000000000, the likes ceiling of safeNumber
LikesCeiling == Num(FALSE, <<0, 100000, 0>>)

\* ------------------------------------------------------ JavaScript values

\* A raw JSON value: null or undefined ("null"), a number, a string (its
\* characters), or anything else (a boolean, an object).
JNull == [t |-> "null", n |-> Zero, s |-> <<>>]

JNum(x) == [t |-> "num", n |-> x, s |-> <<>>]

JStr(cs) == [t |-> "str", n |-> Zero, s |-> cs]

JOther == [t |-> "other", n |-> Zero, s |-> <<>>]

\* a ?? b
Coalesce(a, b) == IF a.t = "null" THEN b ELSE a

\* the truthiness of a null-or-number value
Truthy(v) == v.t = "num" /\ v.n # Zero

DigitChars == <<"0", "1", "2", "3", "4", "5", "6", "7", "8", "9">>

IsDigit(c) == \E i \in 1..10 : DigitChars[i] = c

DigitVal(c) == (CHOOSE i \in 1..10 : DigitChars[i] = c) - 1

RECURSIVE SkipSpaces(_)
SkipSpaces(cs) ==
    IF cs # <<>> /\ Head(cs) = " " THEN SkipSpaces(Tail(cs)) ELSE cs

RECURSIVE DigitRun(_, _)
\* the value of the leading run of digits of cs, continuing acc
DigitRun(cs, acc) ==
    IF cs # <<>> /\ IsDigit(Head(cs))
    THEN DigitRun(Tail(cs), MagAdd(MagMul(acc, 10), <<DigitVal(Head(cs)), 0, 0>>))
    ELSE acc

\* parseInt(cs, 10): leading whitespace, an optional sign, then the leading
\* digits; NaN when there is no digit.
ParseInt(cs) ==
    LET t      == SkipSpaces(cs)
        signed == t # <<>> /\ Head(t) \in {"-", "+"}
        u      == IF signed THEN Tail(t) ELSE t
    IN  IF u = <<>> \/ ~IsDigit(Head(u)) THEN [nan |-> TRUE, n |-> Zero]
        ELSE [nan |-> FALSE, n |-> Num(signed /\ Head(t) = "-", DigitRun(u, MagZero))]

\* max = Infinity, the default of safeNumber's options
MaxInfinity == [inf |-> TRUE, n |-> Zero]

OverMax(x, max) == ~max.inf /\ NumGt(x, max.n)

\* safeNumber with 2^31 in place of 2^32
safeNumberWrongWidth(val, field, max) ==
    IF val.t = "null" THEN JNull
    ELSE IF val.t = "num" /\ ~val.n.neg
    THEN IF OverMax(val.n, max) THEN JNull ELSE val
    ELSE IF val.t = "num"
    THEN LET recovered == NumAdd(val.n, Num(FALSE, <<147483648, 2, 0>>))
         IN  IF field = "followers" /\ NumGt(recovered, FollowersCeiling) THEN JNull
             ELSE IF field = "likes" /\ NumGt(recovered, LikesCeiling) THEN JNull
             ELSE JNum(recovered)
    ELSE JNull

\* safeNumber without the followers ceiling on a recovered value
safeNumberNoCeiling(val, field, max) ==
    IF val.t = "null" THEN JNull
    ELSE IF val.t = "num" /\ ~val.n.neg
    THEN IF OverMax(val.n, max) THEN JNull ELSE val
    ELSE IF val.t = "num" THEN JNum(NumAdd(val.n, TwoPow32))
    ELSE JNull

safeNumber(val, field, max) ==
    IF val.t = "null" THEN JNull
    ELSE IF val.t = "num" /\ ~val.n.neg
    THEN IF OverMax(val.n, max) THEN JNull ELSE val
    ELSE IF val.t = "num"
    THEN LET recovered == NumAdd(val.n, TwoPow32)
         IN  IF field = "followers" /\ NumGt(recovered, FollowersCeiling) THEN JNull
             ELSE IF field = "likes" /\ NumGt(recovered, LikesCeiling) THEN JNull
             ELSE JNum(recovered)
    ELSE IF val.t = "str"
    THEN LET parsed == ParseInt(val.s)
         IN  IF parsed.nan THEN JNull
             ELSE IF OverMax(parsed.n, max) THEN JNull
             ELSE JNum(parsed.n)
    ELSE JNull

\* Math.round((likes / videos / followers) * 10000), for videos > 0 and
\* followers # 0: the engagement rate in hundredths of a percent, computed
\* exactly.  Math.round rounds a half towards plus infinity.
RoundedRate(likes, videos, followers) ==
    LET half(m) == (CHOOSE h \in {MagDivMod(v, <<2, 0, 0>>) : v \in {m}} : TRUE).q
        Rounded(d1, d2) ==
            LET exact   == d1.r = MagZero /\ d2.r = MagZero
                floor2x == d2.q
                ceil2x  == IF exact THEN floor2x ELSE MagAdd(floor2x, MagOne)
            IN  IF likes.neg = followers.neg
                THEN Num(FALSE, half(MagAdd(floor2x, MagOne)))
                ELSE Num(TRUE, half(ceil2x))
        \* each quotient is bound to its value before the next division uses it
        results == UNION {UNION {{Rounded(d1, d2) :
                                    d2 \in {MagDivMod(d1.q, followers.mag)}} :
                                 d1 \in {MagDivMod(p, videos.mag)}} :
                          p \in {MagMul(likes.mag, 20000)}}
    IN  CHOOSE r \in results : TRUE

\* 100 percent, in hundredths of a percent
RateMax == N(10000)

\* The guarded engagement rate of parseProfileFromHtml: JNull, or the rate in
\* hundredths of a percent.
EngagementRate(followers, likes, videos) ==
    IF /\ Truthy(followers) /\ ~followers.n.neg
       /\ Truthy(likes)
       /\ Truthy(videos) /\ ~videos.n.neg
    THEN CHOOSE rate \in {IF r.neg \/ NumGt(r, RateMax) THEN JNull ELSE JNum(r) :
                           r \in {RoundedRate(likes.n, videos.n, followers.n)}} : TRUE
    ELSE JNull

\* stats?.f
StatsField(stats, f) == IF stats.present THEN stats[f] ELSE JNull

\* The counts and the engagement rate of the profile that parseProfileFromHtml
\* builds from the located userData and stats objects.
ParseProfile(userData, stats) ==
    LET followers == safeNumber(Coalesce(StatsField(stats, "followerCount"),
                                         userData.followerCount),
                                "followers", MaxInfinity)
        likes     == safeNumber(Coalesce(StatsField(stats, "heart"),
                                  Coalesce(StatsField(stats, "heartCount"),
                                           userData.heartCount)),
                                "likes", MaxInfinity)
        videos    == safeNumber(Coalesce(StatsField(stats, "videoCount"),
                                         userData.videoCount),
                                "", MaxInfinity)
    IN  [followers      |-> followers,
         following      |-> safeNumber(Coalesce(StatsField(stats, "followingCount"),
                                                userData.followingCount),
                                       "following", MaxInfinity),
         likes          |-> likes,
         videos         |-> videos,
         friendCount    |-> safeNumber(StatsField(stats, "friendCount"), "", MaxInfinity),
         diggCount      |-> safeNumber(StatsField(stats, "diggCount"), "", MaxInfinity),
         engagementRate |-> EngagementRate(followers, likes, videos)]

\* --------------------------------------------- the normalizer on its own

\* -3294967296 = 10^9 - 2^32: the least negative followers count that is kept
NegKept == Num(TRUE, <<294967296, 3, 0>>)

\* 2000000000, a count above the followers ceiling
TwoBillion == Num(FALSE, <<0, 2, 0>>)

\* -4294967297 = -(2^32) - 1: a negative count that 2^32 does not make positive
NegBeyond == Num(TRUE, <<294967297, 4, 0>>)

\* The raw values a count field is given.
RawCounts ==
    {JNull, JOther, JNum(N(0)), JNum(N(1)), JNum(N(10)), JNum(N(50000)),
     JNum(N(-1)), JNum(N(-100)), JNum(NegKept), JNum(NumAdd(NegKept, N(1))),
     JNum(NegBeyond), JNum(TwoBillion),
     JStr(<<"1", "2">>), JStr(<<"-", "5">>), JStr(<<"a", "b">>), JStr(<<>>)}

RawLikes == {JNull, JNum(N(0)), JNum(N(1000)), JNum(N(50000)), JNum(N(-100)), JStr(<<"-", "5">>)}

RawVideos == {JNull, JNum(N(0)), JNum(N(1)), JNum(N(10)), JStr(<<"-", "5">>)}

\* where the page carries the counts: in the stats object (likes as heart or
\* as heartCount) or, with no stats object, in the user object
Placements == {"heart", "heartCount", "user"}

NoStats ==
    [present |-> FALSE, followerCount |-> JNull, heart |-> JNull, heartCount |-> JNull,
     videoCount |-> JNull, followingCount |-> JNull, friendCount |-> JNull,
     diggCount |-> JNull]

\* a userData object whose four counts are all v
UserCounts(f, l, v, o) ==
    [followerCount |-> f, heartCount |-> l, videoCount |-> v, followingCount |-> o]

\* The located subtree of a page with followers f, likes l, videos v and the
\* other counts o, placed as pl; d is what the user object holds beside a
\* stats object.
RawSubtree(f, l, v, o, pl, d) ==
    IF pl = "user" THEN [user |-> UserCounts(f, l, v, o), stats |-> NoStats]
    ELSE [user  |-> UserCounts(d, d, d, d),
          stats |-> [present |-> TRUE, followerCount |-> f,
                     heart |-> IF pl = "heart" THEN l ELSE JNull,
                     heartCount |-> IF pl = "heart" THEN JNull ELSE l,
                     videoCount |-> v, followingCount |-> o, friendCount |-> o,
                     diggCount |-> o]]

EmptyProfile == ParseProfile(UserCounts(JNull, JNull, JNull, JNull), NoStats)

Fields == {"followers", "likes", "following", ""}

\* max as safeNumber's callers leave it, and a finite max
MaxOptions == {MaxInfinity, [inf |-> FALSE, n |-> N(10)]}

IdleNorm == [raw |-> RawSubtree(JNull, JNull, JNull, JNull, "user", JNull),
             done |-> TRUE, profile |-> EmptyProfile]

IdleSn == [val |-> JNull, field |-> "", max |-> MaxInfinity, done |-> TRUE, out |-> JNull]

\* ---------------------------------------------------- the request engine

\* USER_AGENTS of signer.js, the pool getRandomUserAgent draws from
USER_AGENTS ==
    {[browser |-> "Chrome", os |-> "Windows", version |-> 120],
     [browser |-> "Chrome", os |-> "Macintosh", version |-> 120],
     [browser |-> "Firefox", os |-> "Windows", version |-> 121]}

\* requestCount >= 50: the rotation threshold
RotationThreshold == 50

\* The longest delay getGaussianDelay returns (ms).  lastRequestTime is kept as
\* eng.elapsed, the time since lastRequestTime, which stops counting here:
\* applyDelay never waits once elapsed has reached the longest delay.
MaxDelay == 5000

Min(a, b) == IF a < b THEN a ELSE b

\* The tt_webid_v2 cookie of device id d; session is the number of rotations
\* before the cookie was made (it is not part of the cookie).
DeviceCookie(d, session) == [name |-> "tt_webid_v2", value |-> d, session |-> session]

\* A cookie a response set, the response to a request sent in that session.
ServerCookie(name, session) == [name |-> name, value |-> 0, session |-> session]

\* cookieJar.setCookieSync: a cookie replaces the one of its name
setCookie(jar, cookie) == {c \in jar : c.name # cookie.name} \cup {cookie}

RECURSIVE setCookies(_, _, _)
\* for (const cookie of setCookies) this.setCookie(cookie)
setCookies(jar, names, session) ==
    IF names = {} THEN jar
    ELSE LET n == CHOOSE x \in names : TRUE
         IN  setCookies(setCookie(jar, ServerCookie(n, session)), names \ {n}, session)

\* new TikTokAPI(): generateDeviceId returns an id it has not returned before
\* (crypto.randomBytes(8)); the ids of one engine are numbered 1, 2, ...
\* lastRequestTime = 0 is long ago.
Construct(ua) ==
    [userAgent |-> ua, deviceId |-> 1, cookieJar |-> {DeviceCookie(1, 0)},
     requestCount |-> 0, elapsed |-> MaxDelay, rotations |-> 0]

\* rotateSession that keeps the old cookie jar
rotateSessionKeepsJar(e, ua) ==
    [e EXCEPT !.deviceId = e.deviceId + 1, !.userAgent = ua,
              !.cookieJar = setCookie(e.cookieJar, DeviceCookie(e.deviceId + 1, e.rotations + 1)),
              !.requestCount = 0, !.rotations = e.rotations + 1]

\* rotateSession(); ua is the user agent getRandomUserAgent draws
rotateSession(e, ua) ==
    [e EXCEPT !.deviceId = e.deviceId + 1, !.userAgent = ua,
              !.cookieJar = {DeviceCookie(e.deviceId + 1, e.rotations + 1)},
              !.requestCount = 0, !.rotations = e.rotations + 1]

\* applyDelay that always waits the whole delay
WaitTimeWhole(e, delay) == delay

\* the wait of applyDelay for the sampled delay
WaitTime(e, delay) == IF e.elapsed < delay THEN delay - e.elapsed ELSE 0

\* applyDelay(): after the wait, lastRequestTime = Date.now()
applyDelay(e, delay) == [e EXCEPT !.elapsed = 0]

\* the network call took net.latency ms
AfterCall(e, net) == [e EXCEPT !.elapsed = Min(e.elapsed + net.latency, MaxDelay)]

isBlocked(statusCode, bodyHasBlockText) ==
    \/ statusCode = 429
    \/ statusCode = 403
    \/ statusCode = 401
    \/ bodyHasBlockText

\* the rotation check with > in place of >=
countRequestLate(e, ua) ==
    LET c == [e EXCEPT !.requestCount = e.requestCount + 1]
    IN  IF c.requestCount > RotationThreshold THEN rotateSession(c, ua) ELSE c

\* this.requestCount++; if (this.requestCount >= 50) this.rotateSession()
countRequest(e, ua) ==
    LET c == [e EXCEPT !.requestCount = e.requestCount + 1]
    IN  IF c.requestCount >= RotationThreshold THEN rotateSession(c, ua) ELSE c

NoError == [type |-> "none", status |-> 0]

\* What a call did: the outcome of its network call, what it threw or returned,
\* whether it counted the request and rotated, and what it sent.
Outcome(op, e, net, threw, error, ok, profile, counted, rotated) ==
    [op |-> op, kind |-> net.kind, status |-> net.status, blockText |-> net.blockText,
     threw |-> threw, error |-> error, ok |-> ok, profile |-> profile,
     counted |-> counted, rotated |-> rotated,
     sentUserAgent |-> e.userAgent, sentDeviceId |-> e.deviceId]

\* a thrown error leaves the session as it is
Thrown(op, e, after, net, type, status) ==
    [eng |-> after,
     ret |-> Outcome(op, e, net, TRUE, [type |-> type, status |-> status], FALSE,
                     EmptyProfile, FALSE, FALSE)]

\* scrapeUserProfile that counts the request before it looks for a block
scrapeUserProfileCountsFirst(e, net, delay, ua) ==
    LET e1 == AfterCall(applyDelay(e, delay), net)
        e2 == countRequest(e1, ua)
        e3 == [e2 EXCEPT !.cookieJar = setCookies(e2.cookieJar, net.setCookies, e.rotations)]
        rotated == e2.rotations # e1.rotations
    IN  IF net.kind = "timeout" THEN Thrown("scrapeUserProfile", e, e1, net, "TimeoutError", 0)
        ELSE IF net.kind = "httpError"
        THEN Thrown("scrapeUserProfile", e, e1, net, "HTTPError", net.status)
        ELSE IF isBlocked(net.status, net.blockText)
        THEN Thrown("scrapeUserProfile", e, e2, net, "Blocked", net.status)
        ELSE IF ~net.page.found
        THEN [eng |-> e3,
              ret |-> Outcome("scrapeUserProfile", e, net, TRUE,
                              [type |-> "ExtractionError", status |-> 0], FALSE,
                              EmptyProfile, TRUE, rotated)]
        ELSE [eng |-> e3,
              ret |-> Outcome("scrapeUserProfile", e, net, FALSE, NoError, TRUE,
                              ParseProfile(net.page.raw.user, net.page.raw.stats),
                              TRUE, rotated)]

\* scrapeUserProfile(username)
scrapeUserProfile(e, net, delay, ua) ==
    LET e1 == AfterCall(applyDelay(e, delay), net)
    IN  IF net.kind = "timeout" THEN Thrown("scrapeUserProfile", e, e1, net, "TimeoutError", 0)
        ELSE IF net.kind = "httpError"
        THEN IF net.status = 404
             THEN Thrown("scrapeUserProfile", e, e1, net, "NotFound", 404)
             ELSE Thrown("scrapeUserProfile", e, e1, net, "HTTPError", net.status)
        ELSE IF isBlocked(net.status, net.blockText)
        THEN Thrown("scrapeUserProfile", e, e1, net, "Blocked", net.status)
        ELSE LET e2 == countRequest(e1, ua)
                 \* the response's cookies go into the jar of the session that is
                 \* current now, after the rotation check
                 e3 == [e2 EXCEPT !.cookieJar = setCookies(e2.cookieJar, net.setCookies,
                                                           e.rotations)]
                 rotated == e2.rotations # e1.rotations
             IN  IF ~net.page.found
                 THEN [eng |-> e3,
                       ret |-> Outcome("scrapeUserProfile", e, net, TRUE,
                                       [type |-> "ExtractionError", status |-> 0], FALSE,
                                       EmptyProfile, TRUE, rotated)]
                 ELSE [eng |-> e3,
                       ret |-> Outcome("scrapeUserProfile", e, net, FALSE, NoError, TRUE,
                                       ParseProfile(net.page.raw.user, net.page.raw.stats),
                                       TRUE, rotated)]

\* initSession without its try/catch: a failure is thrown to the caller
initSessionThrows(e, net, delay, ua) ==
    LET e1 == AfterCall(applyDelay(e, delay), net)
    IN  IF net.kind # "response" \/ isBlocked(net.status, net.blockText)
        THEN Thrown("initSession", e, e1, net, "InitError", net.status)
        ELSE LET e2 == [e1 EXCEPT !.cookieJar = setCookies(e1.cookieJar, net.setCookies,
                                                           e.rotations)]
                 e3 == countRequest(e2, ua)
             IN  [eng |-> e3,
                  ret |-> Outcome("initSession", e, net, FALSE, NoError, TRUE, EmptyProfile,
                                  TRUE, e3.rotations # e2.rotations)]

\* initSession that rotates the session whatever the count is
initSessionRotates(e, net, delay, ua) ==
    LET e1 == AfterCall(applyDelay(e, delay), net)
    IN  [eng |-> rotateSession(e1, ua),
         ret |-> Outcome("initSession", e, net, FALSE, NoError,
                         net.kind = "response" /\ ~isBlocked(net.status, net.blockText),
                         EmptyProfile, FALSE, TRUE)]

\* initSession(): every error is caught and false returned
initSession(e, net, delay, ua) ==
    LET e1 == AfterCall(applyDelay(e, delay), net)
    IN  IF net.kind # "response" \/ isBlocked(net.status, net.blockText)
        THEN [eng |-> e1,
              ret |-> Outcome("initSession", e, net, FALSE, NoError, FALSE, EmptyProfile,
                              FALSE, FALSE)]
        ELSE LET e2 == [e1 EXCEPT !.cookieJar = setCookies(e1.cookieJar, net.setCookies,
                                                           e.rotations)]
                 e3 == countRequest(e2, ua)
             IN  [eng |-> e3,
                  ret |-> Outcome("initSession", e, net, FALSE, NoError, TRUE, EmptyProfile,
                                  TRUE, e3.rotations # e2.rotations)]

\* getSecUid that counts the request of a blocked response as well
getSecUidCountsBlocked(e, net, delay, ua) ==
    LET e1 == AfterCall(applyDelay(e, delay), net)
    IN  IF net.kind # "response"
        THEN [eng |-> e1,
              ret |-> Outcome("getSecUid", e, net, FALSE, NoError, FALSE, EmptyProfile,
                              FALSE, FALSE)]
        ELSE LET e2 == countRequest(e1, ua)
             IN  [eng |-> e2,
                  ret |-> Outcome("getSecUid", e, net, FALSE, NoError,
                                  net.page.found /\ ~isBlocked(net.status, net.blockText),
                                  EmptyProfile, TRUE, e2.rotations # e1.rotations)]

\* getSecUid(username): null on every error, else the secUid when the page has one
getSecUid(e, net, delay, ua) ==
    LET e1 == AfterCall(applyDelay(e, delay), net)
    IN  IF net.kind # "response" \/ isBlocked(net.status, net.blockText)
        THEN [eng |-> e1,
              ret |-> Outcome("getSecUid", e, net, FALSE, NoError, FALSE, EmptyProfile,
                              FALSE, FALSE)]
        ELSE LET e2 == countRequest(e1, ua)
             IN  [eng |-> e2,
                  ret |-> Outcome("getSecUid", e, net, FALSE, NoError, net.page.found,
                                  EmptyProfile, TRUE, e2.rotations # e1.rotations)]

\* getUserDetailFromWeb(secUid): null on every error, else the response body
getUserDetailFromWeb(e, net, delay, ua) ==
    LET e1 == AfterCall(applyDelay(e, delay), net)
    IN  IF net.kind # "response" \/ isBlocked(net.status, net.blockText)
        THEN [eng |-> e1,
              ret |-> Outcome("getUserDetailFromWeb", e, net, FALSE, NoError, FALSE,
                              EmptyProfile, FALSE, FALSE)]
        ELSE LET e2 == countRequest(e1, ua)
             IN  [eng |-> e2,
                  ret |-> Outcome("getUserDetailFromWeb", e, net, FALSE, NoError, TRUE,
                                  EmptyProfile, TRUE, e2.rotations # e1.rotations)]

\* ------------------------------------------------------------- main

\* username.replace('@', '').trim() of main.js: the first @ is removed, then
\* the white space at both ends
RECURSIVE TrimLeft(_)
TrimLeft(cs) == IF cs # <<>> /\ Head(cs) = " " THEN TrimLeft(Tail(cs)) ELSE cs

RECURSIVE TrimRight(_)
TrimRight(cs) ==
    IF cs # <<>> /\ cs[Len(cs)] = " " THEN TrimRight(SubSeq(cs, 1, Len(cs) - 1)) ELSE cs

RECURSIVE RemoveFirstAt(_)
RemoveFirstAt(cs) ==
    IF cs = <<>> THEN <<>>
    ELSE IF Head(cs) = "@" THEN Tail(cs)
    ELSE <<Head(cs)>> \o RemoveFirstAt(Tail(cs))

cleanUsernameV1(username) == TrimRight(TrimLeft(RemoveFirstAt(username)))

\* the name the loop works on: main.js cleans the entry inside the loop, the
\* later main has cleaned and deduplicated the entries before the loop
LoopUsername(version, username) ==
    IF version = "v1" THEN cleanUsernameV1(username) ELSE username

\* allUsernames.indexOf(username), counted from 1
IndexOf(list, x) == CHOOSE i \in 1..Len(list) : list[i] = x /\ \A j \in 1..(i - 1) : list[j] # x

\* main.js: the engagement rate is computed again, without the bounds of
\* parseProfileFromHtml
recomputeEngagementRate(profile) ==
    IF /\ Truthy(profile.followers) /\ Truthy(profile.likes)
       /\ Truthy(profile.videos) /\ ~profile.videos.n.neg
    THEN [profile EXCEPT !.engagementRate =
              JNum(RoundedRate(profile.likes.n, profile.videos.n, profile.followers.n))]
    ELSE profile

\* formatProfileOutput copies the fields
formatProfileOutput(profile) ==
    [followers |-> profile.followers, following |-> profile.following,
     likes |-> profile.likes, videos |-> profile.videos,
     friendCount |-> profile.friendCount, diggCount |-> profile.diggCount,
     engagementRate |-> profile.engagementRate]

\* the record main stores for a scraped profile
OutputProfile(version, profile) ==
    IF version = "v1" THEN recomputeEngagementRate(profile) ELSE formatProfileOutput(profile)

\* the end of the loop body: the delay between requests unless the entry is
\* (the first occurrence of) the last one
EndOfBody(r) ==
    IF IndexOf(r.usernames, r.usernames[r.idx]) < Len(r.usernames)
    THEN [r EXCEPT !.pc = "delay"]
    ELSE [r EXCEPT !.pc = "loop", !.idx = r.idx + 1]

\* the loop body after the retry loop, with a failure that is not recorded
recordProfileDropsFailure(r) ==
    LET username == LoopUsername(r.version, r.usernames[r.idx])
        out      == OutputProfile(r.version, r.profile.data)
    IN  IF r.profile.some
        THEN EndOfBody([r EXCEPT
                          !.results = Append(r.results, [input |-> username, data |-> out]),
                          !.dataset = Append(r.dataset, out)])
        ELSE EndOfBody(r)

\* the loop body after the retry loop: if (profile) {...} else {...}
recordProfile(r) ==
    LET username == LoopUsername(r.version, r.usernames[r.idx])
    IN  IF r.profile.some
        THEN CHOOSE next \in
                 {EndOfBody([r EXCEPT
                               !.results = Append(r.results, [input |-> username, data |-> out]),
                               !.dataset = Append(r.dataset, out)]) :
                     out \in {OutputProfile(r.version, r.profile.data)}} : TRUE
        ELSE EndOfBody([r EXCEPT
                          !.errors = Append(r.errors,
                                            [username |-> username,
                                             error |-> IF r.lastError = NoError
                                                       THEN "Unknown error"
                                                       ELSE r.lastError.type])])

\* delayBetweenRequests * Math.pow(2, attempt), one doubling too many
BackoffDelayDoubled(delayBetweenRequests, attempt) == delayBetweenRequests * 2 ^ attempt

\* delayBetweenRequests * Math.pow(2, attempt - 1)
BackoffDelay(delayBetweenRequests, attempt) == delayBetweenRequests * 2 ^ (attempt - 1)

\* await new Promise(r => setTimeout(r, delay))
sleep(e, delay) == [e EXCEPT !.elapsed = Min(e.elapsed + delay, MaxDelay)]

\* ------------------------------------------------------- the network

Statuses == {200, 404, 429, 403, 401, 500}

\* a page in which no user data is found
NoPage == [found |-> FALSE, raw |-> RawSubtree(JNull, JNull, JNull, JNull, "user", JNull)]

\* a page with the user data of an account that has no videos yet
PlainPage ==
    [found |-> TRUE,
     raw |-> RawSubtree(JNum(N(1000)), JNum(N(0)), JNum(N(0)), JNum(N(5)),
                        "heartCount", JNull)]

Response(status, blockText, cookies, page, latency) ==
    [kind |-> "response", status |-> status, blockText |-> blockText,
     setCookies |-> cookies, page |-> page, latency |-> latency]

HTTPError(status, latency) ==
    [kind |-> "httpError", status |-> status, blockText |-> FALSE,
     setCookies |-> {}, page |-> NoPage, latency |-> latency]

\* timeout: { request: 20000 }
Timeout ==
    [kind |-> "timeout", status |-> 0, blockText |-> FALSE,
     setCookies |-> {}, page |-> NoPage, latency |-> 20000]

\* The result of got(): a response, an HTTPError carrying the status of a
\* response that is not 2xx, or a timeout.  Whether a status such as 429
\* arrives as a response or as an HTTPError is got's configuration; both are
\* outcomes here.
EngineNets ==
    {Response(200, bt, ck, pg, 0) :
        bt \in BOOLEAN, ck \in SUBSET {"ttwid"}, pg \in {NoPage, PlainPage}}
    \cup {Response(st, FALSE, {}, NoPage, 0) : st \in Statuses \ {200}}
    \cup {HTTPError(st, 0) : st \in Statuses \ {200}}
    \cup {Timeout}

\* the delay getGaussianDelay samples, in [500, 5000]
EngineDelays == {2000}

\* getRandomUserAgent is called by rotateSession only: a call that will not
\* rotate draws nothing
UserAgentDraws(e) ==
    IF e.requestCount + 1 >= RotationThreshold THEN USER_AGENTS
    ELSE {e.userAgent}

\* ------------------------------------------------------ inputs of a run

\* a page of an account with one follower, 1000 likes and one video
ViralPage ==
    [found |-> TRUE,
     raw |-> RawSubtree(JNum(N(1)), JNum(N(1000)), JNum(N(1)), JNum(N(5)), "heart", JNull)]

\* a page of an account with 1000 followers, 50000 likes and 10 videos
ActivePage ==
    [found |-> TRUE,
     raw |-> RawSubtree(JNum(N(1000)), JNum(N(50000)), JNum(N(10)), JNum(N(5)),
                        "heartCount", JNull)]

\* what the network answers to a scrapeUserProfile call of a run
RunNets ==
    {Response(200, FALSE, {"ttwid"}, pg, 0) : pg \in {NoPage, PlainPage, ViralPage, ActivePage}}
    \cup {Response(429, FALSE, {}, NoPage, 0), HTTPError(404, 0), Timeout}

\* what the network answers to an initSession call of a run
RunInitNets == {Response(200, FALSE, {"ttwid"}, NoPage, 0), Response(403, FALSE, {}, NoPage, 0)}

\* the usernames of the input, as main.js gets them
UsernamesV1 ==
    {<<u>> : u \in {<<"a", "b">>, <<"@", "c">>}}
    \cup {<<<<"a", "b">>, <<"@", "c">>>>, <<<<"@">>, <<"a", "b">>>>,
          <<<<"a", "b">>, <<" ">>>>, <<<<"a", "b">>, <<"a", "b">>>>}

\* uniqueUsernames of the later main: cleaned, valid, without duplicates
UsernamesV2 == {<<<<"a", "b">>>>, <<<<"a", "b">>, <<"c">>>>}

\* maxRetries of the input; 3 is the default
RetryOptions == {0, 1, 3}

\* delayBetweenRequests of the input; 1000 is the default
DelayOptions == {300, 1000}

NoProfile == [some |-> FALSE, data |-> EmptyProfile]

\* The state of a run.  calls, waits and reinits are kept for the properties:
\* the scrapeUserProfile calls, the backoff waits and the initSession calls
\* made for the username the loop is at.
StartOfRun(version, usernames, maxRetries, delayBetweenRequests) ==
    [version |-> version, usernames |-> usernames, maxRetries |-> maxRetries,
     delayBetweenRequests |-> delayBetweenRequests,
     pc |-> "init", idx |-> 1, attempt |-> 1, profile |-> NoProfile, lastError |-> NoError,
     results |-> <<>>, errors |-> <<>>, dataset |-> <<>>,
     summary |-> [stored |-> FALSE, totalRequested |-> 0, successful |-> 0, failed |-> 0],
     calls |-> 0, waits |-> <<>>, reinits |-> 0]

IdleRun == [StartOfRun("v2", <<>>, 3, 1000) EXCEPT !.pc = "idle"]

\* rotations of one engine that are followed
MaxRotations == 1

IdlePace == [delay |-> 0, since |-> 0, wait |-> 0]

IdleEng == Construct(CHOOSE ua \in USER_AGENTS : TRUE)

IdleLast == Outcome("none", IdleEng, Timeout, FALSE, NoError, FALSE, EmptyProfile, FALSE, FALSE)

\* ------------------------------------------------ dates and completeness

\* NaN, and a date as an ISO string (n is its seconds since the epoch)
JNaN == [t |-> "nan", n |-> Zero, s |-> <<>>]

\* an integer below 10^18 in absolute value, as a number
NInt(i) ==
    LET a == IF i < 0 THEN -i ELSE i
    IN  Num(i < 0, <<a % Base, a \div Base, 0>>)

\* a number below 2 * 10^9 in absolute value, as an integer
ToInt(x) == (IF x.neg THEN -1 ELSE 1) * (x.mag[1] + Base * x.mag[2])

JDate(sec) == [t |-> "date", n |-> NInt(sec), s |-> <<>>]

\* !v is false
JsTruthy(v) ==
    CASE v.t = "null" -> FALSE
      [] v.t = "nan"  -> FALSE
      [] v.t = "num"  -> v.n # Zero
      [] v.t = "str"  -> v.s # <<>>
      [] OTHER        -> TRUE

\* 8.64 * 10^12 seconds: a Date further from the epoch is invalid
MaxDateSeconds == Num(FALSE, <<0, 8640, 0>>)

SecondsPerDay == 86400

\* the leap years before year y
LeapsBefore(y) == ((y - 1) \div 4) - ((y - 1) \div 100) + ((y - 1) \div 400)

\* the days from the epoch to the first of January of year y
YearStartDay(y) == 365 * (y - 1970) + LeapsBefore(y) - LeapsBefore(1970)

\* getFullYear() of the date sec seconds from the epoch (the process runs in
\* UTC), for dates between 1902 and 2037
YearOf(sec) ==
    LET day == sec \div SecondsPerDay
    IN  CHOOSE y \in 1901..2038 : YearStartDay(y) <= day /\ day < YearStartDay(y + 1)

\* new Date(ts * 1000) for a number, new Date(text) for a string: the date is
\* invalid or sec seconds from the epoch.  Of the strings only a year of four
\* digits ("2020", the first of January, UTC) is read as a date.
InvalidDate == [valid |-> FALSE, sec |-> 0]

DateOfNumber(x) ==
    IF NumGt(Num(FALSE, x.mag), MaxDateSeconds) THEN InvalidDate
    ELSE [valid |-> TRUE, sec |-> ToInt(x)]

DateOfString(cs) ==
    IF Len(cs) = 4 /\ \A i \in 1..4 : IsDigit(cs[i])
    THEN [valid |-> TRUE,
          sec |-> SecondsPerDay * YearStartDay(DigitVal(cs[1]) * 1000 + DigitVal(cs[2]) * 100
                                               + DigitVal(cs[3]) * 10 + DigitVal(cs[4]))]
    ELSE InvalidDate

\* the sanity check of both functions: year < 2016 || year > now.getFullYear()
YearOutOfRange(sec, now) == YearOf(sec) < 2016 \/ YearOf(sec) > YearOf(now)

\* calculateAccountAge(timestamp) at time now.  For an invalid date the year
\* and the age are NaN, every comparison with them is false, and NaN is
\* returned.
calculateAccountAge(timestamp, now) ==
    IF ~JsTruthy(timestamp) THEN JNull
    ELSE LET date == IF timestamp.t = "num" THEN DateOfNumber(timestamp.n)
                     ELSE IF timestamp.t = "str" THEN DateOfString(timestamp.s)
                     ELSE InvalidDate
         IN  IF ~date.valid THEN JNaN
             ELSE IF YearOutOfRange(date.sec, now) THEN JNull
             ELSE LET ageDays == (now - date.sec) \div SecondsPerDay
                  IN  IF ageDays < 0 THEN JNull ELSE JNum(NInt(ageDays))

\* timestampToDate without the check of the year
timestampToDateAnyYear(ts, now) ==
    IF ~JsTruthy(ts) \/ ts.t # "num" THEN JNull
    ELSE LET date == DateOfNumber(ts.n)
         IN  IF ~date.valid THEN JNull ELSE JDate(date.sec)

\* timestampToDate(ts) at time now; toISOString throws for an invalid date and
\* the catch returns null
timestampToDate(ts, now) ==
    IF ~JsTruthy(ts) \/ ts.t # "num" THEN JNull
    ELSE LET date == DateOfNumber(ts.n)
         IN  IF ~date.valid THEN JNull
             ELSE IF YearOutOfRange(date.sec, now) THEN JNull
             ELSE JDate(date.sec)

\* a string or null
IsText(v) == v.t = "str" /\ v.s # <<>>

\* extractBio(userData)
extractBio(userData) ==
    IF IsText(userData.signature) THEN userData.signature
    ELSE IF IsText(userData.bioDescription) THEN userData.bioDescription
    ELSE IF IsText(userData.description) THEN userData.description
    ELSE JNull

\* isValidUrl(url): new URL accepts it.  A URL is written here as a text
\* without a space.
isValidUrl(cs) == cs # <<>> /\ \A i \in 1..Len(cs) : cs[i] # " "

\* bio.match(/https?:\/\/.../i): a URL inside a text is written here as "/"
\* and the characters up to the next space
RECURSIVE UpToSpace(_)
UpToSpace(cs) ==
    IF cs = <<>> \/ Head(cs) = " " THEN <<>> ELSE <<Head(cs)>> \o UpToSpace(Tail(cs))

RECURSIVE UrlInText(_)
UrlInText(cs) ==
    IF cs = <<>> THEN <<>>
    ELSE IF Head(cs) = "/" THEN UpToSpace(cs)
    ELSE UrlInText(Tail(cs))

\* userData.bioLink is null, a string, or an object whose link is n.s
JLinkObject(cs) == [t |-> "link", n |-> Zero, s |-> cs]

\* extractBioLink(userData)
extractBioLink(userData) ==
    LET bio == extractBio(userData)
    IN  IF userData.bioLink.t = "link" /\ userData.bioLink.s # <<>>
           /\ isValidUrl(userData.bioLink.s)
        THEN JStr(userData.bioLink.s)
        ELSE IF userData.bioLink.t = "str" /\ isValidUrl(userData.bioLink.s)
        THEN userData.bioLink
        ELSE IF JsTruthy(bio) /\ UrlInText(bio.s) # <<>> /\ isValidUrl(UrlInText(bio.s))
        THEN JStr(UrlInText(bio.s))
        ELSE JNull

\* a || null
OrNull(v) == IF JsTruthy(v) THEN v ELSE JNull

\* calculateDataQualityScore({bio, bioLink, region, followers, createdAt})
calculateDataQualityScore(data) ==
    Min(100, 50 + (IF JsTruthy(data.bio) THEN 10 ELSE 0)
                + (IF JsTruthy(data.bioLink) THEN 10 ELSE 0)
                + (IF JsTruthy(data.region) THEN 10 ELSE 0)
                + (IF data.followers # JNull /\ data.followers.t = "num"
                      /\ ~data.followers.n.neg /\ data.followers.n # Zero
                   THEN 10 ELSE 0)
                + (IF JsTruthy(data.createdAt) THEN 10 ELSE 0))

\* the object parseProfileFromHtml hands to calculateDataQualityScore, with
\* the converted date in place of the raw createTime
ScoreInputsConverted(userData, followers, now) ==
    [bio |-> extractBio(userData), bioLink |-> extractBioLink(userData),
     region |-> userData.region, followers |-> followers,
     createdAt |-> timestampToDate(userData.createTime, now)]

\* the object parseProfileFromHtml hands to calculateDataQualityScore:
\* createdAt is the raw userData.createTime
ScoreInputs(userData, followers, now) ==
    [bio |-> extractBio(userData), bioLink |-> extractBioLink(userData),
     region |-> userData.region, followers |-> followers,
     createdAt |-> userData.createTime]

\* The profile parseProfileFromHtml returns at time now: the counts and the
\* engagement rate of ParseProfile, and the bio, the link, the region, the
\* dates and the score.
FullProfile(userData, stats, now) ==
    LET counts == ParseProfile(userData, stats)
    IN  [followers |-> counts.followers, following |-> counts.following,
         likes |-> counts.likes, videos |-> counts.videos,
         friendCount |-> counts.friendCount, diggCount |-> counts.diggCount,
         engagementRate |-> counts.engagementRate,
         bio |-> extractBio(userData),
         bioLink |-> extractBioLink(userData),
         region |-> OrNull(userData.region),
         createdAt |-> timestampToDate(userData.createTime, now),
         accountAgeDays |-> calculateAccountAge(userData.createTime, now),
         dataQualityScore |->
             calculateDataQualityScore(ScoreInputs(userData, counts.followers, now))]

\* validateProfileQuality(profile)
validateProfileQuality(profile) ==
    LET issues ==
            (IF ~JsTruthy(profile.bio) THEN {"missing_bio"} ELSE {})
            \cup (IF ~JsTruthy(profile.bioLink) /\ JsTruthy(profile.bio)
                  THEN {"no_bio_link"} ELSE {})
            \cup (IF ~JsTruthy(profile.region) THEN {"missing_region"} ELSE {})
            \cup (IF profile.diggCount = JNull \/ profile.diggCount = JNum(Zero)
                  THEN {"missing_digg_count"} ELSE {})
            \cup (IF profile.engagementRate = JNull THEN {"no_engagement_rate"}
                  ELSE IF profile.engagementRate.t = "nan"
                          \/ (profile.engagementRate.t = "num" /\ profile.engagementRate.n.neg)
                  THEN {"invalid_engagement_rate"} ELSE {})
            \cup (IF profile.accountAgeDays = JNull THEN {"invalid_account_age"}
                  ELSE IF profile.accountAgeDays.t = "num" /\ profile.accountAgeDays.n.neg
                  THEN {"negative_account_age"} ELSE {})
            \cup (IF ~JsTruthy(profile.createdAt) THEN {"missing_created_at"} ELSE {})
    IN  [dataQualityScore |-> profile.dataQualityScore, issueCount |-> Cardinality(issues),
         issues |-> issues, hasWarnings |-> issues # {}]

\* ------------------------------------------------------------- pacing

MinDelay == 500

Max(a, b) == IF a > b THEN a ELSE b

\* Math.round of a number given in tenths: a half goes up
RoundTenths(t) == (t + 5) \div 10

\* getGaussianDelay(), for the value gaussianRandom(2000, 500) returned, in
\* tenths of a millisecond; the loop on u1 === 0 keeps that value finite
getGaussianDelay(raw) == Max(MinDelay, Min(MaxDelay, RoundTenths(raw)))

\* values of gaussianRandom(2000, 500), in tenths of a millisecond
GaussianDraws == {-30000, 4994, 4995, 20000, 20005, 49995, 50010, 120000}

\* What applyDelay does at the head of a call, for the delay it sampled: the
\* time since lastRequestTime and the wait.
Pacing(e, delay) == [delay |-> delay, since |-> e.elapsed, wait |-> WaitTime(e, delay)]

\* time between two calls of the engine
Gaps == {1500}

\* how long a network call takes
Latencies == {0, 400, 2600}

PacingNets == {Response(200, FALSE, {}, NoPage, l) : l \in Latencies} \cup {Timeout}

\* counted requests of the engine that are followed
MaxPaced == 2

\* ------------------------------------------- inputs of the full normalizer

\* 2026-11-04T12:00:00Z
Noon == 1793793600

\* 2026-12-31T23:59:00Z
BeforeNewYear == 1798761540

\* the two times at which a subtree is normalized: the same time, an hour
\* apart, and two minutes apart across the new year
TimePairs == {<<Noon, Noon>>, <<Noon, Noon + 3600>>, <<BeforeNewYear, BeforeNewYear + 120>>}

\* userData.createTime: absent, 0, 1969, 2010, the last second of 2015, the
\* first of 2016, 2020, half an hour after Noon, thirty seconds into 2027,
\* 2030, 10^13 (no date), and strings
RawCreateTimes ==
    {JNull, JNum(Zero), JNum(NInt(-100)), JNum(NInt(1275350400)), JNum(NInt(1451606399)),
     JNum(NInt(1451606400)), JNum(NInt(1590969600)), JNum(NInt(Noon + 1800)),
     JNum(NInt(1798761630)), JNum(NInt(1893456000)), JNum(Num(FALSE, <<0, 10000, 0>>)),
     JStr(<<"2", "0", "1", "0">>), JStr(<<"2", "0", "2", "0">>), JStr(<<"a", "b">>)}

\* userData.signature: absent, a text, a text with a URL in it
RawSignatures == {JNull, JStr(<<"h", "i">>), JStr(<<"a", " ", "/", "x">>)}

\* userData.bioLink: absent, an object with a link, a string that is no URL
RawBioLinks == {JNull, JLinkObject(<<"u">>), JStr(<<" ">>)}

RawRegions == {JNull, JStr(<<"U", "S">>)}

\* a stats object with nothing wrong in it
CleanStats ==
    [present |-> TRUE, followerCount |-> JNum(N(1000)), heart |-> JNum(N(500)),
     heartCount |-> JNull, videoCount |-> JNum(N(10)), followingCount |-> JNum(N(5)),
     friendCount |-> JNum(N(5)), diggCount |-> JNum(N(5))]

\* stats objects: nothing wrong, a following that is no number, a friendCount
\* that is no number, followers above the ceiling, a rate above 100, no
\* followers
RawStats ==
    {CleanStats,
     [CleanStats EXCEPT !.followingCount = JStr(<<"a", "b">>)],
     [CleanStats EXCEPT !.friendCount = JOther],
     [CleanStats EXCEPT !.followerCount = JNum(TwoBillion)],
     [CleanStats EXCEPT !.followerCount = JNum(N(1)), !.heart = JNum(N(1000)),
                        !.videoCount = JNum(N(1))],
     [CleanStats EXCEPT !.followerCount = JNum(N(0))]}

\* the user object of a page: the counts are in the stats object
RawUser(createTime, signature, bioLink, region) ==
    [followerCount |-> JNull, heartCount |-> JNull, videoCount |-> JNull,
     followingCount |-> JNull, createTime |-> createTime, signature |-> signature,
     bioDescription |-> JNull, description |-> JNull, bioLink |-> bioLink,
     region |-> region]

IdleQual == [user |-> RawUser(JNull, JNull, JNull, JNull), stats |-> NoStats,
             times |-> <<0, 0>>, outs |-> <<>>, done |-> TRUE]

\* ------------------------------------------- locating the user in a page

\* undefined or null: what userData and stats are before anything is found
Nothing == ""

\* the four places parseProfileFromHtml looks at, in the order of its code
Locators == <<"SIGI_STATE", "__UNIVERSAL_DATA_FOR_REHYDRATION__", "__NEXT_DATA__", "scripts">>

\* A container of the page is absent (no script element of that id, or one
\* with a "<" in it), unparseable (JSON.parse throws, or the JSON is null
\* under SIGI_STATE), without the path to the user (no UserModule, no
\* userInfo), or has the path; then user and stats are what is at the path.
Container(state, user, stats) == [state |-> state, user |-> user, stats |-> stats]

\* SIGI_STATE: data.UserModule, the first of its users and of its stats
TrySigiState(c, found) ==
    IF c.state = "path"
    THEN [userData |-> c.user, stats |-> c.stats, read |-> Append(found.read, Locators[1])]
    ELSE [found EXCEPT !.read = Append(found.read, Locators[1])]

\* __UNIVERSAL_DATA_FOR_REHYDRATION__ without the test of userData
TryUniversalDataAlways(c, found) ==
    IF c.state = "path"
    THEN [userData |-> c.user, stats |-> c.stats, read |-> Append(found.read, Locators[2])]
    ELSE [found EXCEPT !.read = Append(found.read, Locators[2])]

\* __UNIVERSAL_DATA_FOR_REHYDRATION__: userInfo.user and userInfo.stats
TryUniversalData(c, found) ==
    IF found.userData # Nothing THEN found
    ELSE IF c.state = "path"
    THEN [userData |-> c.user, stats |-> c.stats, read |-> Append(found.read, Locators[2])]
    ELSE [found EXCEPT !.read = Append(found.read, Locators[2])]

\* __NEXT_DATA__: props.pageProps.userInfo
TryNextData(c, found) ==
    IF found.userData # Nothing THEN found
    ELSE IF c.state = "path"
    THEN [userData |-> c.user, stats |-> c.stats, read |-> Append(found.read, Locators[3])]
    ELSE [found EXCEPT !.read = Append(found.read, Locators[3])]

\* A script of the page for the scan: short (under 100 characters, so not
\* matched), unrelated (without the username or without followerCount and
\* fans), unparseable, or JSON in which findUserData finds no object of that
\* uniqueId, finds one itself ("uniqueId": its stats are null), or finds a
\* userInfo with that user ("userInfo": the stats of the userInfo).
Script(state, user, stats) == [state |-> state, user |-> user, stats |-> stats]

\* findUserData(data, username) on the JSON of a script
findUserData(script) ==
    IF script.state = "uniqueId" THEN [some |-> TRUE, user |-> script.user, stats |-> Nothing]
    ELSE IF script.state = "userInfo"
    THEN [some |-> TRUE, user |-> script.user, stats |-> script.stats]
    ELSE [some |-> FALSE, user |-> Nothing, stats |-> Nothing]

\* the loop over allScripts, from script i on
RECURSIVE ScanScripts(_, _, _)
ScanScripts(scripts, i, found) ==
    IF i > Len(scripts) THEN found
    ELSE IF scripts[i].state \in {"short", "unrelated", "unparseable"}
    THEN ScanScripts(scripts, i + 1, found)
    ELSE LET f == findUserData(scripts[i])
         IN  IF f.some THEN [found EXCEPT !.userData = f.user, !.stats = f.stats]
             ELSE ScanScripts(scripts, i + 1, found)

\* the scan of all scripts of the page
TryScripts(scripts, found) ==
    IF found.userData # Nothing THEN found
    ELSE ScanScripts(scripts, 1, [found EXCEPT !.read = Append(found.read, Locators[4])])

\* parseProfileFromHtml up to the throw: the subtree taken, or the error
LocateUserData(page) ==
    LET a == TrySigiState(page.sigi, [userData |-> Nothing, stats |-> Nothing, read |-> <<>>])
        b == TryUniversalData(page.universal, a)
        c == TryNextData(page.next, b)
        d == TryScripts(page.scripts, c)
    IN  IF d.userData = Nothing
        THEN [threw |-> TRUE, error |-> "Could not extract user data from page",
              userData |-> Nothing, stats |-> Nothing, read |-> d.read]
        ELSE [threw |-> FALSE, error |-> "", userData |-> d.userData, stats |-> d.stats,
              read |-> d.read]

\* the user objects and the stats objects of a page, named after the place
\* they are at: the three containers, then the scripts
UserAt == <<"SIGI_STATE.user", "UNIVERSAL_DATA.user", "NEXT_DATA.user", "script1.user",
            "script2.user", "script3.user">>

StatsAt == <<"SIGI_STATE.stats", "UNIVERSAL_DATA.stats", "NEXT_DATA.stats", "script1.stats",
             "script2.stats", "script3.stats">>

\* the contents of the container of locator i
Containers(i) ==
    {Container(s, Nothing, Nothing) : s \in {"absent", "unparseable", "noPath"}}
    \cup {Container("path", u, s) : u \in {Nothing, UserAt[i]}, s \in {Nothing, StatsAt[i]}}

\* the scripts of a page: script j is the j-th that the scan meets
Scripts(j) ==
    {Script(s, Nothing, Nothing) : s \in {"short", "unrelated", "unparseable", "noUser"}}
    \cup {Script("uniqueId", UserAt[3 + j], Nothing)}
    \cup {Script("userInfo", UserAt[3 + j], s) : s \in {Nothing, StatsAt[3 + j]}}

\* pages have up to two scripts for the scan
MaxScripts == 2

ScriptLists == UNION {[1..n -> UNION {Scripts(j) : j \in 1..MaxScripts}] : n \in 0..MaxScripts}

Pages ==
    {[sigi |-> s, universal |-> u, next |-> n, scripts |-> sc] :
        s \in Containers(1), u \in Containers(2), n \in Containers(3),
        sc \in {l \in ScriptLists : \A j \in 1..Len(l) : l[j] \in Scripts(j)}}

NoResult == [threw |-> FALSE, error |-> "", userData |-> Nothing, stats |-> Nothing,
             read |-> <<>>]

IdleLoc == [page |-> [sigi |-> Container("absent", Nothing, Nothing),
                      universal |-> Container("absent", Nothing, Nothing),
                      next |-> Container("absent", Nothing, Nothing), scripts |-> <<>>],
            called |-> FALSE, result |-> NoResult]

\* ------------------------------------------------------------ the signer

\* USER_AGENTS_DESKTOP of the later signer: Chrome 120-125 on Windows and on
\* the Mac, Firefox 121-125 on both, Safari 17.1-17.3 (version in tenths),
\* Edge 123-125
USER_AGENTS_DESKTOP ==
    {[browser |-> "Chrome", os |-> o, version |-> v] :
        o \in {"Windows", "Macintosh"}, v \in 120..125}
    \cup {[browser |-> "Firefox", os |-> o, version |-> v] :
        o \in {"Windows", "Macintosh"}, v \in 121..125}
    \cup {[browser |-> "Safari", os |-> "Macintosh", version |-> v] : v \in 171..173}
    \cup {[browser |-> "Edg", os |-> "Windows", version |-> v] : v \in 123..125}

\* USER_AGENTS_MOBILE: Chrome 124 and 125 on two Android phones, Safari 17.2
\* and 17.3 on the iPhone
USER_AGENTS_MOBILE ==
    {[browser |-> "Chrome", os |-> o, version |-> v] :
        o \in {"Android 14", "Android 13"}, v \in 124..125}
    \cup {[browser |-> "Safari", os |-> "iPhone", version |-> v] : v \in 172..173}

\* The words of a user-agent string that the signer's patterns look for, in
\* lower case: "(Windows NT 10.0; ...)", "(Macintosh; Intel Mac OS X ...)",
\* "(Linux; Android 14; ...) ... Mobile Safari/", "(iPhone; CPU iPhone OS
\* 17_3 like Mac OS X) ... Mobile/", and the product tokens: a Chrome string
\* also has "Safari/", an Edge string also "Chrome/" and "Safari/".
UserAgentWords(ua) ==
    (CASE ua.os = "Windows" -> {"windows"}
       [] ua.os = "Macintosh" -> {"macintosh", "mac os x"}
       [] ua.os = "iPhone" -> {"iphone", "mac os x", "mobile"}
       [] OTHER -> {"linux", "android", "mobile"})
    \cup (CASE ua.browser = "Chrome" -> {"chrome/", "safari/"}
            [] ua.browser = "Firefox" -> {"firefox/"}
            [] ua.browser = "Safari" -> {"safari/"}
            [] OTHER -> {"chrome/", "safari/", "edg/"})

\* pattern.test(ua) for a pattern that is an alternative of words
Test(words, ua) == words \cap UserAgentWords(ua) # {}

\* getRandomUserAgent(mobilePreference) of the later signer: the entries it
\* can return
getRandomUserAgent(mobilePreference) ==
    IF mobilePreference THEN USER_AGENTS_DESKTOP \cup USER_AGENTS_MOBILE
    ELSE USER_AGENTS_DESKTOP

\* parseUserAgent(ua)
parseUserAgent(ua) ==
    [isMobile |-> Test({"mobile", "android", "iphone", "ipad"}, ua),
     isChrome |-> Test({"chrome/"}, ua),
     isFirefox |-> Test({"firefox/"}, ua),
     isSafari |-> Test({"safari/"}, ua) /\ ~Test({"chrome/"}, ua),
     isEdge |-> Test({"edg/"}, ua)]

\* SCREEN_SIZES: the widths getRandomScreenSize can return
ScreenWidths == {1920, 1680, 1440, 1366, 2560, 2880, 375, 390, 412, 360}

\* the platform of buildHeaders: four tests in a row, a later one overrides
secChPlatform(ua) ==
    LET p1 == "Windows"
        p2 == IF Test({"macintosh", "mac os x"}, ua) THEN "macOS" ELSE p1
        p3 == IF Test({"iphone", "ipad"}, ua) THEN "iOS" ELSE p2
    IN  IF Test({"android"}, ua) THEN "Android" ELSE p3

\* buildHeaders(userAgent, cookies) of the later signer: the headers that
\* depend on its arguments and on the screen size it draws
buildHeaders(userAgent, cookies, width) ==
    LET browserInfo == parseUserAgent(userAgent)
    IN  [UserAgent |-> userAgent,
         SecChUa |-> IF browserInfo.isChrome THEN "Google Chrome"
                     ELSE IF browserInfo.isEdge THEN "Microsoft Edge"
                     ELSE "Not_A Brand",
         SecChUaVersion |-> IF browserInfo.isChrome \/ browserInfo.isEdge
                            THEN userAgent.version ELSE 8,
         SecChUaMobile |-> browserInfo.isMobile,
         SecChUaPlatform |-> secChPlatform(userAgent),
         ViewportWidth |-> width,
         Cookie |-> cookies]

\* buildHeaders(userAgent, cookies) of signer.js: nothing but User-Agent and
\* Cookie depends on the arguments; there is no Viewport-Width (0)
buildHeadersV1(userAgent, cookies, width) ==
    [UserAgent |-> userAgent, SecChUa |-> "Google Chrome", SecChUaVersion |-> 120,
     SecChUaMobile |-> FALSE, SecChUaPlatform |-> "Windows", ViewportWidth |-> 0,
     Cookie |-> cookies]

\* the entries the signer in use can give the engine
SignerUserAgents(signer) ==
    IF signer = "v1" THEN USER_AGENTS ELSE UNION {getRandomUserAgent(m) : m \in BOOLEAN}

NoHeaders == [built |-> FALSE,
              headers |-> buildHeadersV1(CHOOSE ua \in USER_AGENTS : TRUE, FALSE, 0)]

IdleHdr == [signer |-> "none", userAgent |-> CHOOSE ua \in USER_AGENTS : TRUE,
            request |-> NoHeaders]

\* ------------------------------------------------- a run at its awaits

\* Date.now() when the run begins: any time later than the longest delay
\* after the zero that lastRequestTime starts with
StartOfClock == 10000

\* values of gaussianRandom(2000, 500) in tenths of a millisecond, and how
\* long a network call takes (ms)
SerialDraws == {4995, 20000}

SerialLatencies == {100, 3000}

\* every call of the engine in main is awaited except the one of the catch
AwaitedButReinit(site) == site # "reinit"

\* whether main awaits the call of the engine it makes at a site: "init"
\* (await api.initSession()), "attempt" (await api.scrapeUserProfile(...)),
\* "reinit" (await api.initSession() of the catch)
Awaited(site) == TRUE

\* the method of the engine that main calls at a site
SiteOp(site) == IF site = "attempt" THEN "scrapeUserProfile" ELSE "initSession"

\* a call of the engine that has not returned: waiting in applyDelay until
\* `at` (phase "delay"), or with its request on the network until `at`
\* (phase "flight")
Call(issue, op, phase, at) == [issue |-> issue, op |-> op, phase |-> phase, at |-> at]

\* the head of the for loop over the usernames
LoopHead(s) == IF s.idx <= s.n THEN [s EXCEPT !.attempt = 1, !.pc = "attempt"]
               ELSE [s EXCEPT !.pc = "done"]

\* main goes on after the call of a site: ok tells a return from a throw
Resume(s, site, ok) ==
    CASE site = "init" -> LoopHead(s)
      [] site = "reinit" -> [s EXCEPT !.attempt = s.attempt + 1, !.pc = "attempt"]
      [] OTHER -> IF ok THEN [s EXCEPT !.pc = "record"]
                  ELSE IF s.attempt < s.maxRetries THEN [s EXCEPT !.pc = "backoff"]
                  ELSE [s EXCEPT !.attempt = s.attempt + 1, !.pc = "record"]

\* main calls a method of the engine: the method runs up to the await of
\* applyDelay (the delay sampled, the wait computed from lastRequestTime), and
\* main is suspended on the call if it awaits it
BeginCall(s, site, delay) ==
    LET k    == s.issued + 1
        wait == WaitTime([elapsed |-> s.now - s.lastRequestTime], delay)
        t    == [s EXCEPT !.issued = k,
                          !.calls = Append(s.calls, Call(k, SiteOp(site), "delay", s.now + wait))]
    IN  IF Awaited(site) THEN [t EXCEPT !.awaiting = k]
        ELSE Resume(t, site, TRUE)

\* the times of the timers and of the requests that are pending
PendingTimes(s) ==
    {s.calls[i].at : i \in 1..Len(s.calls)}
    \cup (IF s.pc \in {"backoffSleep", "interSleep"} THEN {s.timerAt} ELSE {})

\* the event loop takes the earliest
Due(s, t) == \A u \in PendingTimes(s) : t <= u

\* the calls but the i-th
Without(calls, i) == SubSeq(calls, 1, i - 1) \o SubSeq(calls, i + 1, Len(calls))

StartOfSerial(n, maxRetries, delayBetweenRequests) ==
    [pc |-> "init", idx |-> 1, n |-> n, attempt |-> 1, maxRetries |-> maxRetries,
     delayBetweenRequests |-> delayBetweenRequests, awaiting |-> 0, issued |-> 0,
     calls |-> <<>>, timerAt |-> 0, now |-> StartOfClock, lastRequestTime |-> 0,
     starts |-> <<>>]

IdleSer == [StartOfSerial(0, 1, 1000) EXCEPT !.pc = "idle"]

\* ------------------------------------------- the input of the later main

\* the characters /^[a-zA-Z0-9._]+$/ lets through, of those the inputs use
UsernameChars == {"a", "b", "c", "A", "B", "1", ".", "_"}

\* toLowerCase() of one character
LowerChar(c) == IF c = "A" THEN "a" ELSE IF c = "B" THEN "b" ELSE c

toLowerCase(cs) == [i \in 1..Len(cs) |-> LowerChar(cs[i])]

\* replace(/^@+/, '')
RECURSIVE StripLeadingAts(_)
StripLeadingAts(cs) ==
    IF cs # <<>> /\ Head(cs) = "@" THEN StripLeadingAts(Tail(cs)) ELSE cs

\* isValidUsername(username)
isValidUsername(username) ==
    /\ username # <<>>
    /\ Len(username) >= 2
    /\ Len(username) <= 30
    /\ \A i \in 1..Len(username) : username[i] \in UsernameChars

\* null, as cleanUsername and extractUsernameFromUrl return it: the callers
\* test the result for truth only, and no username is the empty string
NoUsername == <<>>

\* cleanUsername(input)
cleanUsername(input) ==
    IF input = <<>> THEN NoUsername
    ELSE LET username == StripLeadingAts(toLowerCase(TrimRight(TrimLeft(input))))
         IN  IF isValidUsername(username) THEN username ELSE NoUsername

\* the longest run of username characters of url from position i on
RECURSIVE RunFrom(_, _)
RunFrom(url, i) ==
    IF i <= Len(url) /\ url[i] \in UsernameChars THEN <<url[i]>> \o RunFrom(url, i + 1)
    ELSE <<>>

\* A url is a sequence of characters in which a host is one element.  The
\* places where /(?:tiktok\.com|vm\.tiktok\.com)\/@([a-zA-Z0-9._]+)/i and
\* /@([a-zA-Z0-9._]+)/ match:
HostMatches(url) ==
    {i \in 1..(Len(url) - 3) :
        /\ url[i] \in {"tiktok.com", "TikTok.com"}
        /\ url[i + 1] = "/" /\ url[i + 2] = "@"
        /\ url[i + 3] \in UsernameChars}

AtMatches(url) == {i \in 1..(Len(url) - 1) : url[i] = "@" /\ url[i + 1] \in UsernameChars}

Least(S) == CHOOSE i \in S : \A j \in S : i <= j

\* extractUsernameFromUrl(url)
extractUsernameFromUrl(url) ==
    IF url = <<>> THEN NoUsername
    ELSE IF HostMatches(url) # {} THEN cleanUsername(RunFrom(url, Least(HostMatches(url)) + 3))
    ELSE IF AtMatches(url) # {} THEN cleanUsername(RunFrom(url, Least(AtMatches(url)) + 1))
    ELSE NoUsername

\* allUsernames.add(x) without the test for membership
AddAlways(list, x) == Append(list, x)

\* allUsernames.add(x): a Set keeps the order of insertion
SetAdd(list, x) == IF \E i \in 1..Len(list) : list[i] = x THEN list ELSE Append(list, x)

\* the two loops that fill allUsernames, from entry i of the array on
RECURSIVE AddUsernames(_, _, _)
AddUsernames(all, usernames, i) ==
    IF i > Len(usernames) THEN all
    ELSE LET cleaned == cleanUsername(usernames[i])
         IN  AddUsernames(IF cleaned # NoUsername THEN SetAdd(all, cleaned) ELSE all,
                          usernames, i + 1)

RECURSIVE AddUrls(_, _, _)
AddUrls(all, urls, i) ==
    IF i > Len(urls) THEN all
    ELSE LET extracted == extractUsernameFromUrl(urls[i])
         IN  AddUrls(IF extracted # NoUsername THEN SetAdd(all, extracted) ELSE all,
                     urls, i + 1)

\* uniqueUsernames = Array.from(allUsernames)
uniqueUsernames(usernames, urls) == AddUrls(AddUsernames(<<>>, usernames, 1), urls, 1)

\* a name of 31 characters, and one of 30
LongName(n) == [i \in 1..n |-> "a"]

\* entries of the usernames array
RawUsernames ==
    {<<"a", "b">>, <<"@", "A", "b">>, <<" ", "a", "B", " ">>, <<"@", "@", "a", "b">>,
     <<"a">>, <<"a", "!">>, <<"c", ".", "_", "1">>, <<>>, <<"@", " ", "a", "b">>,
     LongName(30), LongName(31)}

\* entries of the urls array
RawUrls ==
    {<<"https://www.", "tiktok.com", "/", "@", "A", "b", "?", "c">>,
     <<"https://vm.", "TikTok.com", "/", "@", "c", ".", "_", "1">>,
     <<"@", "a", "b">>,
     <<"https://www.", "tiktok.com", "/", "a", "b">>,
     <<"https://", "example.com", "/", "@", "a", "/", "@", "a", "b">>}

\* the arrays of the input are this long at most
MaxUsernames == 2

MaxUrls == 1

StartOfInput(usernames, urls, maxRetries) ==
    [usernames |-> usernames, urls |-> urls, maxRetries |-> maxRetries, pc |-> "collect",
     unique |-> <<>>, idx |-> 1, processed |-> <<>>, passed |-> <<>>, dataset |-> <<>>]

IdleInp == [StartOfInput(<<>>, <<>>, 1) EXCEPT !.pc = "idle"]

\* ------------------------------------------------------- the bio links

\* bioText.match(urlRegex) with the g flag: every URL of the text, in order
RECURSIVE AllUrlsInText(_)
AllUrlsInText(cs) ==
    IF cs = <<>> THEN <<>>
    ELSE IF Head(cs) = "/"
    THEN <<UpToSpace(cs)>> \o AllUrlsInText(SubSeq(cs, Len(UpToSpace(cs)) + 1, Len(cs)))
    ELSE AllUrlsInText(Tail(cs))

\* links.some(l => l.url === match)
HasUrl(list, url) == \E i \in 1..Len(list) : list[i].url = url

\* the loop over the matches without the test of links.some
RECURSIVE AddMatchesAll(_, _, _)
AddMatchesAll(list, matches, i) ==
    IF i > Len(matches) THEN list
    ELSE AddMatchesAll(IF isValidUrl(matches[i])
                       THEN Append(list, [url |-> matches[i], type |-> "bio_text"])
                       ELSE list,
                       matches, i + 1)

\* for (const match of matches): a valid match that is no url of the list yet
\* is added
RECURSIVE AddMatches(_, _, _)
AddMatches(list, matches, i) ==
    IF i > Len(matches) THEN list
    ELSE AddMatches(IF isValidUrl(matches[i]) /\ ~HasUrl(list, matches[i])
                    THEN Append(list, [url |-> matches[i], type |-> "bio_text"])
                    ELSE list,
                    matches, i + 1)

\* extractBioLinks(bioText, bioLinkUrl)
extractBioLinks(bioText, bioLinkUrl) ==
    LET official == IF JsTruthy(bioLinkUrl)
                    THEN <<[url |-> bioLinkUrl.s, type |-> "official"]>> ELSE <<>>
    IN  IF JsTruthy(bioText) THEN AddMatches(official, AllUrlsInText(bioText.s), 1)
        ELSE official

\* the texts of up to n characters
Texts(n) == UNION {[1..k -> {"/", "x", "y", " "}] : k \in 0..n}

\* userData.signature is a text this long at most
MaxBio == 5

\* userData.bioLink: absent, an object with a link, a string, a string that
\* is no URL
LinkOptions == {JNull, JLinkObject(<<"/", "x">>), JStr(<<"/", "y">>), JStr(<<" ">>)}

IdleLinks == [user |-> RawUser(JNull, JNull, JNull, JNull), called |-> FALSE,
              bio |-> JNull, bioLink |-> JNull, bioLinks |-> <<>>]

\* ------------------------------------------- the fingerprint of a request

\* getBrowserPlatform(ua) of the later signer
getBrowserPlatform(ua) ==
    IF Test({"windows"}, ua) THEN "Win32"
    ELSE IF Test({"macintosh", "mac os x"}, ua) THEN "MacIntel"
    ELSE IF Test({"iphone", "ipad"}, ua) THEN "iPhone"
    ELSE IF Test({"android"}, ua) THEN "Android"
    ELSE "Win32"

\* buildQueryParams(options) of the later signer: the fingerprint values of
\* the query; timezone, width, userAgent and deviceId are what
\* getRandomTimezone, getRandomScreenSize, getRandomUserAgent and
\* generateDeviceId return inside the call
buildQueryParams(timezone, width, userAgent, deviceId) ==
    [device_id |-> deviceId, browser_platform |-> getBrowserPlatform(userAgent),
     screen_width |-> width, tz_name |-> timezone]

\* buildQueryParams(extras) of signer.js: only the device id is drawn
buildQueryParamsV1(timezone, width, userAgent, deviceId) ==
    [device_id |-> deviceId, browser_platform |-> "Win32",
     screen_width |-> 1920, tz_name |-> "America/Chicago"]

\* the values generateDeviceId gives in a run that is followed
DeviceIds == {1, 2}

\* the screen widths that are drawn, two of SCREEN_SIZES
FingerprintWidths == {1920, 375}

\* the time zones that are drawn, two of TIMEZONE_POOLS.DEFAULT (the pool of
\* an engine without a proxy location)
FingerprintZones == {"America/Chicago", "Europe/London"}

\* the user agents that are drawn: entries of both signers' pools
FingerprintAgents ==
    {[browser |-> "Chrome", os |-> "Windows", version |-> 120],
     [browser |-> "Chrome", os |-> "Macintosh", version |-> 120]}

NoQuery == buildQueryParamsV1("America/Chicago", 1920, CHOOSE ua \in FingerprintAgents : TRUE, 1)

\* no request sent yet
NoRequest == [sent |-> FALSE, op |-> "none", session |-> 0,
              headers |-> buildHeadersV1(CHOOSE ua \in FingerprintAgents : TRUE, 1, 0),
              hasQuery |-> FALSE, query |-> NoQuery]

\* The request of scrapeUserProfile (hasQuery false) or of
\* getUserDetailFromWeb (hasQuery true) of engine f.  The cookie string is
\* kept as the device id of its tt_webid_v2 cookie.
SentRequest(f, op, width, query) ==
    [sent |-> TRUE, op |-> op, session |-> f.rotations,
     headers |-> IF f.signer = "v1" THEN buildHeadersV1(f.userAgent, f.deviceId, width)
                 ELSE buildHeaders(f.userAgent, f.deviceId, width),
     hasQuery |-> op = "getUserDetailFromWeb", query |-> query]

\* What the response does to the engine: a blocked response throws before
\* the count; the count rotates the session at the threshold (ua and id are
\* what getRandomUserAgent and generateDeviceId return in rotateSession).
AfterResponse(f, blocked, ua, id) ==
    IF blocked THEN f
    ELSE IF f.requestCount + 1 >= RotationThreshold
         THEN [f EXCEPT !.requestCount = 0, !.userAgent = ua, !.deviceId = id,
                        !.rotations = f.rotations + 1]
         ELSE [f EXCEPT !.requestCount = f.requestCount + 1]

\* the user agent and the device id rotateSession draws, where it is called
RotationDraws(f, blocked) ==
    IF ~blocked /\ f.requestCount + 1 >= RotationThreshold
    THEN FingerprintAgents \X DeviceIds
    ELSE {<<f.userAgent, f.deviceId>>}

\* the queries buildQueryParams of the signer in use can build
QueryDraws(signer) ==
    {IF signer = "v1" THEN buildQueryParamsV1(timezone, screen, ua, id)
     ELSE buildQueryParams(timezone, screen, ua, id) :
        timezone \in FingerprintZones, screen \in FingerprintWidths,
        ua \in FingerprintAgents, id \in DeviceIds}

IdleFpr == [signer |-> "none", userAgent |-> CHOOSE ua \in FingerprintAgents : TRUE,
            deviceId |-> 1, requestCount |-> 0, rotations |-> 0, request |-> NoRequest]

\* ------------------------------------------------------- the device id

HexDigits == <<"0", "1", "2", "3", "4", "5", "6", "7", "8", "9",
               "a", "b", "c", "d", "e", "f">>

\* the number of bytes generateDeviceId asks crypto.randomBytes for
DeviceIdBytes == 8

\* the end index of the slice generateDeviceId takes
DeviceIdSlice == 17

RECURSIVE toStringHex(_)
\* buffer.toString('hex'): two digits for every byte
toStringHex(bytes) ==
    IF bytes = <<>> THEN <<>>
    ELSE <<HexDigits[(Head(bytes) \div 16) + 1], HexDigits[(Head(bytes) % 16) + 1]>>
         \o toStringHex(Tail(bytes))

\* string.slice(0, end) with end >= 0: at most the whole string
sliceFromStart(s, end) == SubSeq(s, 1, Min(end, Len(s)))

\* generateDeviceId(), bytes being what crypto.randomBytes(8) returns
generateDeviceId(bytes) ==
    <<"6", "9">> \o sliceFromStart(toStringHex(bytes), DeviceIdSlice)

\* the values of a random byte that are followed
ByteDraws == {0, 10, 255}

IdleDev == [bytes |-> <<>>, called |-> FALSE, id |-> <<>>]

\* ----------------------------------------- one engine, two callers

\* the callers that share the engine
Callers == {1, 2}

\* calls of scrapeUserProfile that are followed
MaxShared == 3

\* a call of scrapeUserProfile on the shared engine: when it read
\* Date.now() in applyDelay, the lastRequestTime it read, the delay it
\* sampled, the calls that were waiting in applyDelay at that moment, and,
\* once applyDelay is over, when its request was sent and the user agent
\* and device id the request carries
SharedCall(caller, begin, read, delay, waiting) ==
    [caller |-> caller, begin |-> begin, read |-> read, delay |-> delay,
     waiting |-> waiting, started |-> FALSE, start |-> 0,
     userAgent |-> CHOOSE ua \in FingerprintAgents : TRUE, deviceId |-> 0]

\* the request of scrapeUserProfile without the assignment to
\* lastRequestTime before it
SendSharedKeepsTime(s, c, latency) ==
    LET k == s.callers[c].k
    IN  [s EXCEPT !.callers[c] = [pc |-> "flight", at |-> s.now + latency, k |-> k],
                  !.starts = Append(s.starts, k),
                  !.log[k] = [s.log[k] EXCEPT !.started = TRUE, !.start = s.now,
                                              !.userAgent = s.userAgent,
                                              !.deviceId = s.deviceId]]

\* the end of applyDelay and the request of scrapeUserProfile, for the call
\* of caller c: this.lastRequestTime = Date.now(), then got(url, {headers:
\* buildHeaders(this.userAgent, this.getCookieString())})
SendShared(s, c, latency) ==
    LET k == s.callers[c].k
    IN  [s EXCEPT !.lastRequestTime = s.now,
                  !.callers[c] = [pc |-> "flight", at |-> s.now + latency, k |-> k],
                  !.starts = Append(s.starts, k),
                  !.log[k] = [s.log[k] EXCEPT !.started = TRUE, !.start = s.now,
                                              !.userAgent = s.userAgent,
                                              !.deviceId = s.deviceId]]

\* the calls that are waiting in applyDelay
WaitingCalls(s) == {s.callers[c].k : c \in {d \in Callers : s.callers[d].pc = "delay"}}

\* caller c calls scrapeUserProfile: applyDelay reads the clock and
\* lastRequestTime, samples the delay, and either awaits the timer or, with
\* nothing to wait for, goes on to the request in the same turn
BeginShared(s, c, delay, latency) ==
    LET k    == Len(s.log) + 1
        wait == WaitTime([elapsed |-> s.now - s.lastRequestTime], delay)
        t    == [s EXCEPT !.log = Append(s.log, SharedCall(c, s.now, s.lastRequestTime,
                                                           delay, WaitingCalls(s))),
                          !.callers[c] = [pc |-> "delay", at |-> s.now + wait, k |-> k]]
    IN  IF wait = 0 THEN SendShared(t, c, latency) ELSE t

\* the times of the timers and of the responses that are pending
SharedTimes(s) == {s.callers[c].at : c \in {d \in Callers : s.callers[d].pc # "idle"}}

\* the event loop takes the earliest
SharedDue(s, t) == \A u \in SharedTimes(s) : t <= u

IdleCaller == [pc |-> "idle", at |-> 0, k |-> 0]

\* new TikTokAPI(), at the time the callers start
StartOfShared(ua, id) ==
    [now |-> StartOfClock, lastRequestTime |-> 0, userAgent |-> ua, deviceId |-> id,
     requestCount |-> 0, rotations |-> 0, callers |-> [c \in Callers |-> IdleCaller],
     log |-> <<>>, starts |-> <<>>]

IdleShr == [StartOfShared(CHOOSE ua \in FingerprintAgents : TRUE, 0) EXCEPT !.now = 0]

\* ------------------------------------------------ the walk of findUserData

\* a parsed JSON value: an object with its properties in key order, a
\* string, null; undefined is what reading an absent property gives
Obj(props) == [t |-> "object", s |-> "", props |-> props]
Txt(s) == [t |-> "string", s |-> s, props |-> <<>>]
Nil == [t |-> "null", s |-> "", props |-> <<>>]
Undefined == [t |-> "undefined", s |-> "", props |-> <<>>]

Prop(key, val) == [key |-> key, val |-> val]

\* obj[key], and obj?.[key] for a value that is not an object
Get(obj, key) ==
    IF obj.t = "object" /\ \E i \in 1..Len(obj.props) : obj.props[i].key = key
    THEN obj.props[CHOOSE i \in 1..Len(obj.props) : obj.props[i].key = key].val
    ELSE Undefined

\* depth >= 10
TooDeepAtTen(depth) == depth >= 10

\* depth > 10
TooDeep(depth) == depth > 10

NotFound == [found |-> FALSE, user |-> Nil, stats |-> Nil, calls |-> 0]

RECURSIVE findUserDataIn(_, _, _)
RECURSIVE findUserDataKeys(_, _, _, _, _)

\* findUserData(obj, username, depth): {user, stats} or null, and the number
\* of calls of findUserData that were made for it
findUserDataIn(obj, username, depth) ==
    IF TooDeep(depth) \/ obj.t # "object" THEN [NotFound EXCEPT !.calls = 1]
    ELSE IF Get(obj, "uniqueId") = Txt(username) \/ Get(obj, "unique_id") = Txt(username)
    THEN [found |-> TRUE, user |-> obj, stats |-> Nil, calls |-> 1]
    ELSE IF Get(Get(Get(obj, "userInfo"), "user"), "uniqueId") = Txt(username)
    THEN [found |-> TRUE, user |-> Get(Get(obj, "userInfo"), "user"),
          stats |-> Get(Get(obj, "userInfo"), "stats"), calls |-> 1]
    ELSE findUserDataKeys(obj, username, depth, 1, 1)

\* the for loop over Object.keys(obj) from the i-th key on, after `calls`
\* calls: the first result that is not null is returned
findUserDataKeys(obj, username, depth, i, calls) ==
    IF i > Len(obj.props) THEN [NotFound EXCEPT !.calls = calls]
    ELSE LET result == findUserDataIn(obj.props[i].val, username, depth + 1)
         IN  IF result.found THEN [result EXCEPT !.calls = calls + result.calls]
             ELSE findUserDataKeys(obj, username, depth, i + 1, calls + result.calls)

\* the user objects and the wrappers of the values that are searched
DirectUser(name, tag) == Obj(<<Prop("uniqueId", Txt(name)), Prop("nickname", Txt(tag))>>)
SnakeUser(name, tag) == Obj(<<Prop("unique_id", Txt(name)), Prop("nickname", Txt(tag))>>)
InfoUser(name, tag) ==
    Obj(<<Prop("userInfo", Obj(<<Prop("user", DirectUser(name, tag)),
                                 Prop("stats", Txt(tag))>>))>>)

RECURSIVE Wrapped(_, _)
\* v inside n objects of one key
Wrapped(v, n) == IF n = 0 THEN v ELSE Obj(<<Prop("a", Wrapped(v, n - 1))>>)

\* what is put at the end of a chain of objects
Leaves(tag) ==
    {DirectUser("bob", tag), SnakeUser("bob", tag), InfoUser("bob", tag),
     DirectUser("eve", tag), Txt("bob"), Nil}

\* how many objects are put around a leaf: under a root of two keys the leaf
\* is 1, 9, 10, 11 and 12 levels below the root
WrapDepths == {0, 8, 9, 10, 11}

\* the parsed contents of a script
ParsedScripts ==
    {Obj(<<Prop("a", Wrapped(x, m)), Prop("b", Wrapped(y, n))>>) :
        x \in Leaves("x"), y \in Leaves("y"), m \in WrapDepths, n \in {0, 9, 10}}
    \cup {Txt("bob"), Nil, DirectUser("bob", "root"), InfoUser("bob", "root")}

IdleWalk == [data |-> Nil, username |-> "", called |-> FALSE, result |-> NotFound]

\* ---------------------------------------------------- specifications

InitNormalize ==
    /\ \E f \in RawCounts, l \in RawLikes, v \in RawVideos, o \in RawCounts,
          pl \in Placements, d \in {JNull, JNum(N(7))} :
          norm = [raw |-> RawSubtree(f, l, v, o, pl, d), done |-> FALSE,
                  profile |-> EmptyProfile]
    /\ sn = IdleSn
    /\ eng = IdleEng
    /\ last = IdleLast
    /\ run = IdleRun
    /\ pace = IdlePace
    /\ qual = IdleQual
    /\ loc = IdleLoc
    /\ hdr = IdleHdr
    /\ ser = IdleSer
    /\ inp = IdleInp
    /\ links = IdleLinks
    /\ fpr = IdleFpr
    /\ dev = IdleDev
    /\ shr = IdleShr
    /\ walk = IdleWalk

\* parseProfileFromHtml, from the located subtree on
Normalize ==
    /\ ~norm.done
    /\ norm' = [norm EXCEPT !.done = TRUE,
                            !.profile = ParseProfile(norm.raw.user, norm.raw.stats)]
    /\ UNCHANGED <<sn, eng, last, run, pace, qual, loc, hdr, ser, inp, links, fpr, dev, shr, walk>>

NextNormalize == Normalize

SpecNormalize == InitNormalize /\ [][NextNormalize]_vars

InitSafeNumber ==
    /\ \E val \in RawCounts, field \in Fields, max \in MaxOptions :
          sn = [val |-> val, field |-> field, max |-> max, done |-> FALSE, out |-> JNull]
    /\ norm = IdleNorm
    /\ eng = IdleEng
    /\ last = IdleLast
    /\ run = IdleRun
    /\ pace = IdlePace
    /\ qual = IdleQual
    /\ loc = IdleLoc
    /\ hdr = IdleHdr
    /\ ser = IdleSer
    /\ inp = IdleInp
    /\ links = IdleLinks
    /\ fpr = IdleFpr
    /\ dev = IdleDev
    /\ shr = IdleShr
    /\ walk = IdleWalk

CallSafeNumber ==
    /\ ~sn.done
    /\ sn' = [sn EXCEPT !.done = TRUE, !.out = safeNumber(sn.val, sn.field, sn.max)]
    /\ UNCHANGED <<norm, eng, last, run, pace, qual, loc, hdr, ser, inp, links, fpr, dev, shr, walk>>

NextSafeNumber == CallSafeNumber

SpecSafeNumber == InitSafeNumber /\ [][NextSafeNumber]_vars

\* The engine on its own: its calls in any order, against any network.
InitEngine ==
    /\ \E ua \in USER_AGENTS : eng = Construct(ua)
    /\ last = IdleLast
    /\ norm = IdleNorm
    /\ sn = IdleSn
    /\ run = IdleRun
    /\ pace = IdlePace
    /\ qual = IdleQual
    /\ loc = IdleLoc
    /\ hdr = IdleHdr
    /\ ser = IdleSer
    /\ inp = IdleInp
    /\ links = IdleLinks
    /\ fpr = IdleFpr
    /\ dev = IdleDev
    /\ shr = IdleShr
    /\ walk = IdleWalk

CallInitSession ==
    /\ eng.rotations <= MaxRotations
    /\ \E net \in EngineNets, delay \in EngineDelays, ua \in UserAgentDraws(eng) :
          \E r \in {initSession(eng, net, delay, ua)} : eng' = r.eng /\ last' = r.ret
    /\ UNCHANGED <<norm, sn, run, pace, qual, loc, hdr, ser, inp, links, fpr, dev, shr, walk>>

CallScrapeUserProfile ==
    /\ eng.rotations <= MaxRotations
    /\ \E net \in EngineNets, delay \in EngineDelays, ua \in UserAgentDraws(eng) :
          \E r \in {scrapeUserProfile(eng, net, delay, ua)} : eng' = r.eng /\ last' = r.ret
    /\ UNCHANGED <<norm, sn, run, pace, qual, loc, hdr, ser, inp, links, fpr, dev, shr, walk>>

CallGetSecUid ==
    /\ eng.rotations <= MaxRotations
    /\ \E net \in EngineNets, delay \in EngineDelays, ua \in UserAgentDraws(eng) :
          \E r \in {getSecUid(eng, net, delay, ua)} : eng' = r.eng /\ last' = r.ret
    /\ UNCHANGED <<norm, sn, run, pace, qual, loc, hdr, ser, inp, links, fpr, dev, shr, walk>>

CallGetUserDetailFromWeb ==
    /\ eng.rotations <= MaxRotations
    /\ \E net \in EngineNets, delay \in EngineDelays, ua \in UserAgentDraws(eng) :
          \E r \in {getUserDetailFromWeb(eng, net, delay, ua)} : eng' = r.eng /\ last' = r.ret
    /\ UNCHANGED <<norm, sn, run, pace, qual, loc, hdr, ser, inp, links, fpr, dev, shr, walk>>

NextEngine ==
    \/ CallInitSession
    \/ CallScrapeUserProfile
    \/ CallGetSecUid
    \/ CallGetUserDetailFromWeb

SpecEngine == InitEngine /\ [][NextEngine]_vars

\* A run of main, from the constructed engine to the stored summary.
InitRun ==
    /\ \E ua \in USER_AGENTS : eng = Construct(ua)
    /\ last = IdleLast
    /\ norm = IdleNorm
    /\ sn = IdleSn
    /\ \E version \in {"v1", "v2"}, maxRetries \in RetryOptions, delay \in DelayOptions :
          \E usernames \in (IF version = "v1" THEN UsernamesV1 ELSE UsernamesV2) :
             run = StartOfRun(version, usernames, maxRetries, delay)
    /\ pace = IdlePace
    /\ qual = IdleQual
    /\ loc = IdleLoc
    /\ hdr = IdleHdr
    /\ ser = IdleSer
    /\ inp = IdleInp
    /\ links = IdleLinks
    /\ fpr = IdleFpr
    /\ dev = IdleDev
    /\ shr = IdleShr
    /\ walk = IdleWalk

\* await api.initSession()
InitialSession ==
    /\ run.pc = "init"
    /\ \E net \in RunInitNets, delay \in EngineDelays, ua \in UserAgentDraws(eng) :
          \E r \in {initSession(eng, net, delay, ua)} : eng' = r.eng /\ last' = r.ret
    /\ run' = [run EXCEPT !.pc = "loop"]
    /\ UNCHANGED <<norm, sn, pace, qual, loc, hdr, ser, inp, links, fpr, dev, shr, walk>>

\* the loop is over
EndLoop ==
    /\ run.pc = "loop"
    /\ run.idx > Len(run.usernames)
    /\ run' = [run EXCEPT !.pc = "summary"]
    /\ UNCHANGED <<norm, sn, eng, last, pace, qual, loc, hdr, ser, inp, links, fpr, dev, shr, walk>>

\* main.js: if (!cleanUsername) continue
SkipBlank ==
    /\ run.pc = "loop"
    /\ run.idx <= Len(run.usernames)
    /\ LoopUsername(run.version, run.usernames[run.idx]) = <<>>
    /\ run' = [run EXCEPT !.idx = run.idx + 1]
    /\ UNCHANGED <<norm, sn, eng, last, pace, qual, loc, hdr, ser, inp, links, fpr, dev, shr, walk>>

\* the head of the loop body and of the retry loop
StartProfile ==
    /\ run.pc = "loop"
    /\ run.idx <= Len(run.usernames)
    /\ LoopUsername(run.version, run.usernames[run.idx]) # <<>>
    /\ run' = [run EXCEPT !.attempt = 1, !.profile = NoProfile, !.lastError = NoError,
                          !.calls = 0, !.waits = <<>>, !.reinits = 0,
                          !.pc = IF 1 <= run.maxRetries THEN "attempt" ELSE "record"]
    /\ UNCHANGED <<norm, sn, eng, last, pace, qual, loc, hdr, ser, inp, links, fpr, dev, shr, walk>>

\* profile = await api.scrapeUserProfile(username), and the catch
Attempt ==
    /\ run.pc = "attempt"
    /\ \E net \in RunNets, delay \in EngineDelays, ua \in UserAgentDraws(eng) :
          \E r \in {scrapeUserProfile(eng, net, delay, ua)} :
             /\ eng' = r.eng
             /\ last' = r.ret
             /\ run' = IF ~r.ret.threw
                       THEN [run EXCEPT !.profile = [some |-> TRUE, data |-> r.ret.profile],
                                        !.calls = run.calls + 1, !.pc = "record"]
                       ELSE IF run.attempt < run.maxRetries
                       THEN [run EXCEPT !.lastError = r.ret.error,
                                        !.calls = run.calls + 1, !.pc = "backoff"]
                       ELSE [run EXCEPT !.lastError = r.ret.error,
                                        !.calls = run.calls + 1,
                                        !.attempt = run.attempt + 1, !.pc = "record"]
    /\ UNCHANGED <<norm, sn, pace, qual, loc, hdr, ser, inp, links, fpr, dev, shr, walk>>

\* the exponential backoff
Backoff ==
    /\ run.pc = "backoff"
    /\ LET delay == BackoffDelay(run.delayBetweenRequests, run.attempt)
       IN  /\ eng' = sleep(eng, delay)
           /\ run' = [run EXCEPT !.waits = Append(run.waits, delay), !.pc = "reinit"]
    /\ UNCHANGED <<norm, sn, last, pace, qual, loc, hdr, ser, inp, links, fpr, dev, shr, walk>>

\* await api.initSession() of the catch, and attempt++
Reinit ==
    /\ run.pc = "reinit"
    /\ \E net \in RunInitNets, delay \in EngineDelays, ua \in UserAgentDraws(eng) :
          \E r \in {initSession(eng, net, delay, ua)} : eng' = r.eng /\ last' = r.ret
    /\ run' = [run EXCEPT !.reinits = run.reinits + 1, !.attempt = run.attempt + 1,
                          !.pc = "attempt"]
    /\ UNCHANGED <<norm, sn, pace, qual, loc, hdr, ser, inp, links, fpr, dev, shr, walk>>

\* after the retry loop: the profile goes to results and to the dataset, or
\* the failure to errors
Record ==
    /\ run.pc = "record"
    /\ \E r \in {recordProfile(run)} : run' = r
    /\ UNCHANGED <<norm, sn, eng, last, pace, qual, loc, hdr, ser, inp, links, fpr, dev, shr, walk>>

\* the delay between requests
InterDelay ==
    /\ run.pc = "delay"
    /\ eng' = sleep(eng, run.delayBetweenRequests)
    /\ run' = [run EXCEPT !.idx = run.idx + 1, !.pc = "loop"]
    /\ UNCHANGED <<norm, sn, last, pace, qual, loc, hdr, ser, inp, links, fpr, dev, shr, walk>>

\* Actor.setValue('summary', ...)
StoreSummary ==
    /\ run.pc = "summary"
    /\ run' = [run EXCEPT !.summary = [stored |-> TRUE,
                                       totalRequested |-> Len(run.usernames),
                                       successful |-> Len(run.results),
                                       failed |-> Len(run.errors)],
                          !.pc = "done"]
    /\ UNCHANGED <<norm, sn, eng, last, pace, qual, loc, hdr, ser, inp, links, fpr, dev, shr, walk>>

NextRun ==
    \/ InitialSession
    \/ EndLoop
    \/ SkipBlank
    \/ StartProfile
    \/ Attempt
    \/ Backoff
    \/ Reinit
    \/ Record
    \/ InterDelay
    \/ StoreSummary

SpecRun == InitRun /\ [][NextRun]_vars

\* The engine's calls with the clock: any delay, any latency, any time between
\* two calls.
InitPacing ==
    /\ \E ua \in USER_AGENTS : eng = Construct(ua)
    /\ last = IdleLast
    /\ norm = IdleNorm
    /\ sn = IdleSn
    /\ run = IdleRun
    /\ pace = IdlePace
    /\ qual = IdleQual
    /\ loc = IdleLoc
    /\ hdr = IdleHdr
    /\ ser = IdleSer
    /\ inp = IdleInp
    /\ links = IdleLinks
    /\ fpr = IdleFpr
    /\ dev = IdleDev
    /\ shr = IdleShr
    /\ walk = IdleWalk

PacedInitSession ==
    /\ eng.requestCount < MaxPaced
    /\ \E net \in PacingNets, raw \in GaussianDraws, ua \in UserAgentDraws(eng) :
          \E delay \in {getGaussianDelay(raw)} :
             \E r \in {initSession(eng, net, delay, ua)} :
                eng' = r.eng /\ last' = r.ret /\ pace' = Pacing(eng, delay)
    /\ UNCHANGED <<norm, sn, run, qual, loc, hdr, ser, inp, links, fpr, dev, shr, walk>>

PacedScrapeUserProfile ==
    /\ eng.requestCount < MaxPaced
    /\ \E net \in PacingNets, raw \in GaussianDraws, ua \in UserAgentDraws(eng) :
          \E delay \in {getGaussianDelay(raw)} :
             \E r \in {scrapeUserProfile(eng, net, delay, ua)} :
                eng' = r.eng /\ last' = r.ret /\ pace' = Pacing(eng, delay)
    /\ UNCHANGED <<norm, sn, run, qual, loc, hdr, ser, inp, links, fpr, dev, shr, walk>>

PacedGetSecUid ==
    /\ eng.requestCount < MaxPaced
    /\ \E net \in PacingNets, raw \in GaussianDraws, ua \in UserAgentDraws(eng) :
          \E delay \in {getGaussianDelay(raw)} :
             \E r \in {getSecUid(eng, net, delay, ua)} :
                eng' = r.eng /\ last' = r.ret /\ pace' = Pacing(eng, delay)
    /\ UNCHANGED <<norm, sn, run, qual, loc, hdr, ser, inp, links, fpr, dev, shr, walk>>

PacedGetUserDetailFromWeb ==
    /\ eng.requestCount < MaxPaced
    /\ \E net \in PacingNets, raw \in GaussianDraws, ua \in UserAgentDraws(eng) :
          \E delay \in {getGaussianDelay(raw)} :
             \E r \in {getUserDetailFromWeb(eng, net, delay, ua)} :
                eng' = r.eng /\ last' = r.ret /\ pace' = Pacing(eng, delay)
    /\ UNCHANGED <<norm, sn, run, qual, loc, hdr, ser, inp, links, fpr, dev, shr, walk>>

\* the caller does something else between two calls
TimePasses ==
    /\ eng.requestCount < MaxPaced
    /\ last.op # "none"
    /\ eng.elapsed < MaxDelay
    /\ \E gap \in Gaps : eng' = sleep(eng, gap)
    /\ UNCHANGED <<norm, sn, run, last, pace, qual, loc, hdr, ser, inp, links, fpr, dev, shr, walk>>

NextPacing ==
    \/ PacedInitSession
    \/ PacedScrapeUserProfile
    \/ PacedGetSecUid
    \/ PacedGetUserDetailFromWeb
    \/ TimePasses

SpecPacing == InitPacing /\ [][NextPacing]_vars

\* The whole normalizer and the quality report, run twice on one subtree.
InitQuality ==
    /\ \E createTime \in RawCreateTimes, signature \in RawSignatures,
          bioLink \in RawBioLinks, region \in RawRegions, stats \in RawStats,
          times \in TimePairs :
          qual = [user |-> RawUser(createTime, signature, bioLink, region), stats |-> stats,
                  times |-> times, outs |-> <<>>, done |-> FALSE]
    /\ norm = IdleNorm
    /\ sn = IdleSn
    /\ eng = IdleEng
    /\ last = IdleLast
    /\ run = IdleRun
    /\ pace = IdlePace
    /\ loc = IdleLoc
    /\ hdr = IdleHdr
    /\ ser = IdleSer
    /\ inp = IdleInp
    /\ links = IdleLinks
    /\ fpr = IdleFpr
    /\ dev = IdleDev
    /\ shr = IdleShr
    /\ walk = IdleWalk

\* parseProfileFromHtml from the located subtree on, then validateProfileQuality
NormalizeAndValidate ==
    /\ ~qual.done
    /\ LET now == qual.times[Len(qual.outs) + 1]
       IN  \E p \in {FullProfile(qual.user, qual.stats, now)} :
              qual' = [qual EXCEPT
                         !.outs = Append(qual.outs,
                                         [at |-> now, profile |-> p,
                                          quality |-> validateProfileQuality(p)]),
                         !.done = (Len(qual.outs) = 1)]
    /\ UNCHANGED <<norm, sn, eng, last, run, pace, loc, hdr, ser, inp, links, fpr, dev, shr, walk>>

NextQuality == NormalizeAndValidate

SpecQuality == InitQuality /\ [][NextQuality]_vars

\* ================================================================ claims

Fingerprint(e) == <<e.deviceId, e.userAgent>>

\* C1: counted from a fresh engine or from a rotation, every fetch that passes
\* block detection adds one to requestCount and keeps the fingerprint, until
\* the 50th, which leaves requestCount = 0 and a fingerprint (deviceId,
\* userAgent) different from the one that fetch was sent with; a fetch that
\* does not pass changes neither; and every fetch is sent with the fingerprint
\* the engine holds when it is called, so the fetch after the 50th observes
\* requestCount = 0 and is sent with the new fingerprint.
C1_RotationAfterFifty ==
    [][/\ last'.sentDeviceId = eng.deviceId /\ last'.sentUserAgent = eng.userAgent
       /\ IF ~last'.counted
          THEN eng'.requestCount = eng.requestCount /\ Fingerprint(eng') = Fingerprint(eng)
          ELSE IF eng.requestCount = 49
          THEN /\ last'.rotated
               /\ eng'.requestCount = 0
               /\ Fingerprint(eng') # Fingerprint(eng)
          ELSE /\ ~last'.rotated
               /\ eng'.requestCount = eng.requestCount + 1
               /\ eng'.requestCount < 50
               /\ Fingerprint(eng') = Fingerprint(eng)]_vars

\* the fetch after a rotation: it was sent with the second fingerprint and it
\* is the first one counted since the rotation
C1_Witness ==
    /\ eng.rotations = 1 /\ eng.requestCount = 1
    /\ last.counted /\ last.sentDeviceId = 2 /\ eng.deviceId = 2

\* C2: a scrapeUserProfile call whose response has status 429 throws an error
\* that carries the status, leaves requestCount unchanged and does not rotate
\* the session.
C2_BlockedOn429 ==
    [][(last'.op = "scrapeUserProfile" /\ last'.status = 429)
       => /\ last'.threw
          /\ last'.error.status = 429
          /\ last'.error.type \in {"Blocked", "HTTPError"}
          /\ ~last'.counted /\ ~last'.rotated
          /\ eng'.requestCount = eng.requestCount
          /\ eng'.rotations = eng.rotations
          /\ Fingerprint(eng') = Fingerprint(eng)
          /\ eng'.cookieJar = eng.cookieJar]_vars

\* a 429 response to a scrapeUserProfile call made one request short of the
\* rotation threshold
C2_Witness ==
    /\ last.op = "scrapeUserProfile" /\ last.kind = "response" /\ last.status = 429
    /\ last.threw /\ eng.requestCount = 49

\* C3: when a call has rotated the session, requestCount is 0, the deviceId is
\* new and the cookie jar holds the new session's tt_webid_v2 cookie and
\* nothing else.  (The userAgent is drawn again from the pool and may be the
\* one it was; it is not compared.)
C3_RotationAtomic ==
    last.rotated =>
        /\ eng.requestCount = 0
        /\ eng.deviceId # last.sentDeviceId
        /\ eng.userAgent \in USER_AGENTS
        /\ eng.cookieJar = {DeviceCookie(eng.deviceId, eng.rotations)}

\* the engagement rate is null, or between 0 and 100 percent
RateInRange(rate) ==
    \/ rate = JNull
    \/ rate.t = "num" /\ ~rate.n.neg /\ NumLe(rate.n, RateMax)

\* C4: in every record a run has pushed to the dataset, engagementRate is null
\* or between 0 and 100, and it is null when followers is 0 or videos is 0.
C4_EmittedRateInRange ==
    \A i \in 1..Len(run.dataset) :
        LET p == run.dataset[i]
        IN  /\ RateInRange(p.engagementRate)
            /\ (p.followers = JNum(Zero) \/ p.videos = JNum(Zero)) => p.engagementRate = JNull

InRetryLoop == run.pc \in {"attempt", "backoff", "reinit", "record"}

\* C9: for the username the loop is at, scrapeUserProfile has been called at
\* most maxRetries times and is not called after a success; the k-th wait is
\* delayBetweenRequests * 2^(k-1) and is followed by one initSession; a wait
\* follows each failed attempt but the last one allowed, so that no wait and no
\* initSession follows a success or the final failure.
C9_BoundedRetries ==
    InRetryLoop =>
        /\ run.calls <= run.maxRetries
        /\ run.profile.some => run.pc = "record"
        /\ \A k \in 1..Len(run.waits) :
              run.waits[k] = run.delayBetweenRequests * 2 ^ (k - 1)
        /\ run.pc = "attempt" =>
              /\ run.attempt = run.calls + 1 /\ run.attempt <= run.maxRetries
              /\ Len(run.waits) = run.calls /\ run.reinits = run.calls
        /\ run.pc = "backoff" =>
              /\ run.calls < run.maxRetries
              /\ Len(run.waits) = run.calls - 1 /\ run.reinits = run.calls - 1
        /\ run.pc = "reinit" =>
              /\ run.calls < run.maxRetries
              /\ Len(run.waits) = run.calls /\ run.reinits = run.calls - 1
        /\ run.pc = "record" =>
              /\ run.reinits = Len(run.waits)
              /\ Len(run.waits) = (IF run.calls = 0 THEN 0 ELSE run.calls - 1)
              /\ ~run.profile.some => run.calls = run.maxRetries

\* three attempts have failed, with waits of 300 and 600 ms between them and
\* none after the third
C9_Witness ==
    /\ run.pc = "record" /\ ~run.profile.some
    /\ run.maxRetries = 3 /\ run.calls = 3
    /\ run.waits = <<300, 600>> /\ run.reinits = 2

\* the entries of results and of errors for a username
Entries(username) ==
    Cardinality({i \in 1..Len(run.results) : run.results[i].input = username})
    + Cardinality({i \in 1..Len(run.errors) : run.errors[i].username = username})

\* C10, for the main of the cited loop (the one that deduplicates): whatever
\* the attempts fail with, the run is never stuck before the summary is
\* stored; each username the loop has passed has one entry, in results or in
\* errors, and no other has one; and in the stored summary
\* successful + failed = totalRequested.
C10_EveryUsernameRecorded ==
    run.version = "v2" /\ run.pc # "idle" =>
        /\ run.pc # "done" => ENABLED NextRun
        /\ run.pc \in {"loop", "summary", "done"} =>
              /\ Len(run.results) + Len(run.errors) = run.idx - 1
              /\ \A i \in 1..Len(run.usernames) :
                    Entries(run.usernames[i]) = (IF i < run.idx THEN 1 ELSE 0)
        /\ run.pc = "done" =>
              /\ run.idx = Len(run.usernames) + 1
              /\ run.summary.stored
              /\ run.summary.totalRequested = Len(run.usernames)
              /\ run.summary.successful + run.summary.failed = run.summary.totalRequested

\* a run over two usernames is done: the first failed, the second succeeded
C10_Witness ==
    /\ run.version = "v2" /\ run.pc = "done" /\ Len(run.usernames) = 2
    /\ Len(run.errors) = 1 /\ run.errors[1].username = run.usernames[1]
    /\ Len(run.results) = 1 /\ run.results[1].input = run.usernames[2]
    /\ run.summary.totalRequested = 2

CountFields == {"followers", "following", "likes", "videos", "friendCount", "diggCount"}

\* null, or a non-negative number that is at most the field's ceiling
WithinBound(v, field) ==
    \/ v = JNull
    \/ /\ v.t = "num"
       /\ ~v.n.neg
       /\ field = "followers" => NumLe(v.n, Num(FALSE, <<0, 1, 0>>))
       /\ field = "likes" => NumLe(v.n, Num(FALSE, <<0, 100000, 0>>))

\* C5: every count field of a profile that parseProfileFromHtml returns is null
\* or a non-negative number within its field's sanity bound, whatever the raw
\* value was.
C5_CountsWithinBounds ==
    norm.done => \A f \in CountFields : WithinBound(norm.profile[f], f)

\* C6: for a negative raw number v, safeNumber(v, field) is v + 4294967296, or
\* null when that recovered value is above the field's ceiling (followers
\* 10^9, likes 10^14).
C6_OverflowRecovery ==
    (sn.done /\ sn.val.t = "num" /\ sn.val.n.neg) =>
        LET recovered == NumAdd(sn.val.n, Num(FALSE, <<294967296, 4, 0>>))
            above     == \/ sn.field = "followers" /\ NumGt(recovered, Num(FALSE, <<0, 1, 0>>))
                         \/ sn.field = "likes" /\ NumGt(recovered, Num(FALSE, <<0, 100000, 0>>))
        IN  sn.out = IF above THEN JNull ELSE JNum(recovered)

\* safeNumber(-3294967296, followers) has returned 1000000000
C6_Witness ==
    /\ sn.done
    /\ sn.field = "followers"
    /\ sn.val = JNum(Num(TRUE, <<294967296, 3, 0>>))
    /\ sn.out = JNum(Num(FALSE, <<0, 1, 0>>))

\* the raw stats {followerCount: -100, videoCount: 10, heartCount: 50000}
C7_Scenario == RawSubtree(JNum(N(-100)), JNum(N(50000)), JNum(N(10)), JNull, "heartCount", JNull)

\* C7 as claimed: the raw stats {followerCount: -100, videoCount: 10,
\* heartCount: 50000} normalize to followers = 4294967196, likes = 50000,
\* videos = 10 and a non-null engagement rate.
C7_Original ==
    (norm.done /\ norm.raw = C7_Scenario) =>
        /\ norm.profile.followers = JNum(Num(FALSE, <<294967196, 4, 0>>))
        /\ norm.profile.likes = JNum(N(50000))
        /\ norm.profile.videos = JNum(N(10))
        /\ norm.profile.engagementRate.t = "num"

\* C7 as amended: the raw stats {followerCount: -100, videoCount: 10,
\* heartCount: 50000} normalize to followers = null (the recovered 4294967196
\* is above the followers ceiling 10^9), likes = 50000, videos = 10 and a null
\* engagement rate.
C7_ScenarioRejected ==
    (norm.done /\ norm.raw = C7_Scenario) =>
        /\ norm.profile.followers = JNull
        /\ norm.profile.likes = JNum(N(50000))
        /\ norm.profile.videos = JNum(N(10))
        /\ norm.profile.engagementRate = JNull

\* the scenario's subtree has been normalized
C7_Witness == norm.done /\ norm.raw = C7_Scenario


\* C11: initSession throws for no outcome of its request; it returns true when
\* the request got a response that is not blocked, and false for a timeout, an
\* HTTP error, a blocking status and a blocking text in the body.
C11_InitSessionNeverThrows ==
    last.op = "initSession" =>
        /\ ~last.threw
        /\ last.error = NoError
        /\ last.ok = (last.kind = "response" /\ ~isBlocked(last.status, last.blockText))
        /\ last.kind \in {"timeout", "httpError"} => ~last.ok
        /\ last.status \in {429, 403, 401} => ~last.ok
        /\ last.blockText => ~last.ok

\* initSession has returned false for a request that timed out
C11_Witness ==
    last.op = "initSession" /\ last.kind = "timeout" /\ ~last.ok /\ ~last.threw


\* C12: the delay applyDelay samples is an integer between 500 and 5000; the
\* wait is delay - since when the time since lastRequestTime is below the
\* delay and 0 otherwise; it is never above the delay; and the request starts
\* at least 500 ms after the one before it (since + wait >= 500).
C12_PacedRequests ==
    last.op # "none" =>
        /\ pace.delay \in MinDelay..MaxDelay
        /\ pace.delay \in 500..5000
        /\ pace.wait = (IF pace.since >= pace.delay THEN 0 ELSE pace.delay - pace.since)
        /\ pace.wait >= 0 /\ pace.wait <= pace.delay
        /\ pace.since + pace.wait >= 500
        /\ eng.elapsed <= MaxDelay

\* a call made 400 ms after the one before it, with a delay of 2001 ms, has
\* waited 1601 ms
C12_Witness ==
    /\ last.op # "none"
    /\ pace.delay = 2001 /\ pace.since = 400 /\ pace.wait = 1601


\* the raw createTime is a number or a string that is a date
HasDate(createTime) ==
    \/ createTime.t = "num" /\ DateOfNumber(createTime.n).valid
    \/ createTime.t = "str" /\ DateOfString(createTime.s).valid

SecondsOf(createTime) ==
    IF createTime.t = "num" THEN DateOfNumber(createTime.n).sec
    ELSE DateOfString(createTime.s).sec

Count(b) == IF b THEN 1 ELSE 0

\* C14: the score of a profile is min(100, 50 + 10 n), n counting which of
\* its bio, bioLink, region and createdAt are not null and whether its
\* followers are above 0; a profile whose createdAt is null gets nothing for
\* createdAt.
C14_ScoreFromProfileFields ==
    \A i \in 1..Len(qual.outs) :
        LET p == qual.outs[i].profile
            n == Count(p.bio # JNull) + Count(p.bioLink # JNull) + Count(p.region # JNull)
                 + Count(p.createdAt # JNull)
                 + Count(p.followers.t = "num" /\ ~p.followers.n.neg /\ p.followers.n # Zero)
        IN  p.dataQualityScore = (IF 50 + 10 * n > 100 THEN 100 ELSE 50 + 10 * n)


ClockFields == {"createdAt", "accountAgeDays"}

ClockIssues == {"invalid_account_age", "negative_account_age", "missing_created_at"}

RawCount(f) ==
    CASE f = "followers" -> qual.stats.followerCount
      [] f = "following" -> qual.stats.followingCount
      [] f = "likes" -> qual.stats.heart
      [] f = "videos" -> qual.stats.videoCount
      [] f = "friendCount" -> qual.stats.friendCount
      [] OTHER -> qual.stats.diggCount

\* a field of the profile nulled by an anomaly of the raw subtree: a count that
\* was given and is null, a createTime that was given and has no date, a rate
\* that is null although followers and videos are given
NulledByAnomaly(out) ==
    \/ \E f \in {"followers", "following", "likes", "videos", "friendCount", "diggCount"} :
          RawCount(f) # JNull /\ out.profile[f] = JNull
    \/ qual.user.createTime # JNull /\ out.profile.createdAt = JNull

\* C16: whenever an anomaly of the raw subtree nulls a field of the profile,
\* the quality report of that profile carries at least one issue tag.
C16_AnomalyHasIssue ==
    \A i \in 1..Len(qual.outs) :
        NulledByAnomaly(qual.outs[i]) => qual.outs[i].quality.issues # {}


\* ------------------------------------------ parseProfileFromHtml locating

InitLocate ==
    /\ \E page \in Pages : loc = [page |-> page, called |-> FALSE, result |-> NoResult]
    /\ norm = IdleNorm
    /\ sn = IdleSn
    /\ eng = IdleEng
    /\ last = IdleLast
    /\ run = IdleRun
    /\ pace = IdlePace
    /\ qual = IdleQual
    /\ hdr = IdleHdr
    /\ ser = IdleSer
    /\ inp = IdleInp
    /\ links = IdleLinks
    /\ fpr = IdleFpr
    /\ dev = IdleDev
    /\ shr = IdleShr
    /\ walk = IdleWalk

\* parseProfileFromHtml(html, username), up to the subtree or the throw
CallParseProfileFromHtml ==
    /\ ~loc.called
    /\ \E r \in {LocateUserData(loc.page)} : loc' = [loc EXCEPT !.called = TRUE, !.result = r]
    /\ UNCHANGED <<norm, sn, eng, last, run, pace, qual, hdr, ser, inp, links, fpr, dev, shr, walk>>

NextLocate == CallParseProfileFromHtml

SpecLocate == InitLocate /\ [][NextLocate]_vars


\* -------------------------------------------- the headers of the requests

\* new TikTokAPI(): this.userAgent = getRandomUserAgent()
InitHeaders ==
    /\ \E signer \in {"v1", "v2"} : \E ua \in SignerUserAgents(signer) :
          hdr = [signer |-> signer, userAgent |-> ua, request |-> NoHeaders]
    /\ norm = IdleNorm
    /\ sn = IdleSn
    /\ eng = IdleEng
    /\ last = IdleLast
    /\ run = IdleRun
    /\ pace = IdlePace
    /\ qual = IdleQual
    /\ loc = IdleLoc
    /\ ser = IdleSer
    /\ inp = IdleInp
    /\ links = IdleLinks
    /\ fpr = IdleFpr
    /\ dev = IdleDev
    /\ shr = IdleShr
    /\ walk = IdleWalk

\* a request of the engine: headers: buildHeaders(this.userAgent, cookies)
BuildRequestHeaders ==
    /\ \E cookies \in BOOLEAN, width \in ScreenWidths :
          hdr' = [hdr EXCEPT !.request =
                      [built |-> TRUE,
                       headers |-> IF hdr.signer = "v1"
                                   THEN buildHeadersV1(hdr.userAgent, cookies, width)
                                   ELSE buildHeaders(hdr.userAgent, cookies, width)]]
    /\ UNCHANGED <<norm, sn, eng, last, run, pace, qual, loc, ser, inp, links, fpr, dev, shr, walk>>

\* rotateSession: this.userAgent = getRandomUserAgent()
RotateUserAgent ==
    /\ \E ua \in SignerUserAgents(hdr.signer) : hdr' = [hdr EXCEPT !.userAgent = ua]
    /\ UNCHANGED <<norm, sn, eng, last, run, pace, qual, loc, ser, inp, links, fpr, dev, shr, walk>>

NextHeaders == BuildRequestHeaders \/ RotateUserAgent

SpecHeaders == InitHeaders /\ [][NextHeaders]_vars


\* --------------------------------------------------- the run at its awaits

InitSerial ==
    /\ \E n \in {1, 2}, maxRetries \in {1, 2}, delay \in DelayOptions :
          ser = StartOfSerial(n, maxRetries, delay)
    /\ norm = IdleNorm
    /\ sn = IdleSn
    /\ eng = IdleEng
    /\ last = IdleLast
    /\ run = IdleRun
    /\ pace = IdlePace
    /\ qual = IdleQual
    /\ loc = IdleLoc
    /\ hdr = IdleHdr
    /\ inp = IdleInp
    /\ links = IdleLinks
    /\ fpr = IdleFpr
    /\ dev = IdleDev
    /\ shr = IdleShr
    /\ walk = IdleWalk

\* main reaches api.initSession() or api.scrapeUserProfile(username)
MainCalls ==
    /\ ser.pc \in {"init", "attempt", "reinit"}
    /\ ser.awaiting = 0
    /\ \E raw \in SerialDraws : ser' = BeginCall(ser, ser.pc, getGaussianDelay(raw))
    /\ UNCHANGED <<norm, sn, eng, last, run, pace, qual, loc, hdr, inp, links, fpr, dev, shr, walk>>

\* applyDelay is over: this.lastRequestTime = Date.now(), and got(...) sends
\* the request
RequestStarts ==
    /\ \E i \in 1..Len(ser.calls), latency \in SerialLatencies :
          /\ ser.calls[i].phase = "delay"
          /\ Due(ser, ser.calls[i].at)
          /\ ser' = [ser EXCEPT
                       !.now = ser.calls[i].at,
                       !.lastRequestTime = ser.calls[i].at,
                       !.starts = Append(ser.starts, [issue |-> ser.calls[i].issue,
                                                      at |-> ser.calls[i].at]),
                       !.calls[i] = Call(ser.calls[i].issue, ser.calls[i].op, "flight",
                                         ser.calls[i].at + latency)]
    /\ UNCHANGED <<norm, sn, eng, last, run, pace, qual, loc, hdr, inp, links, fpr, dev, shr, walk>>

\* the request is answered or fails, the method returns or throws, and main
\* goes on if it awaits this call
RequestEnds ==
    /\ \E i \in 1..Len(ser.calls), ok \in BOOLEAN :
          /\ ser.calls[i].phase = "flight"
          /\ Due(ser, ser.calls[i].at)
          /\ LET t == [ser EXCEPT !.now = ser.calls[i].at,
                                  !.calls = Without(ser.calls, i)]
             IN  ser' = IF ser.awaiting = ser.calls[i].issue
                        THEN Resume([t EXCEPT !.awaiting = 0], ser.pc, ok)
                        ELSE t
    /\ UNCHANGED <<norm, sn, eng, last, run, pace, qual, loc, hdr, inp, links, fpr, dev, shr, walk>>

\* await new Promise(r => setTimeout(r, delay)): the backoff of the catch and
\* the delay between two usernames
MainSleeps ==
    /\ ser.pc \in {"backoff", "inter"}
    /\ ser' = IF ser.pc = "backoff"
              THEN [ser EXCEPT !.pc = "backoffSleep",
                               !.timerAt = ser.now + BackoffDelay(ser.delayBetweenRequests,
                                                                  ser.attempt)]
              ELSE [ser EXCEPT !.pc = "interSleep",
                               !.timerAt = ser.now + ser.delayBetweenRequests]
    /\ UNCHANGED <<norm, sn, eng, last, run, pace, qual, loc, hdr, inp, links, fpr, dev, shr, walk>>

\* the timer of main fires
MainWakes ==
    /\ ser.pc \in {"backoffSleep", "interSleep"}
    /\ Due(ser, ser.timerAt)
    /\ ser' = IF ser.pc = "backoffSleep"
              THEN [ser EXCEPT !.now = ser.timerAt, !.pc = "reinit"]
              ELSE LoopHead([ser EXCEPT !.now = ser.timerAt, !.idx = ser.idx + 1])
    /\ UNCHANGED <<norm, sn, eng, last, run, pace, qual, loc, hdr, inp, links, fpr, dev, shr, walk>>

\* after the retry loop: the result or the error is stored
MainRecords ==
    /\ ser.pc = "record"
    /\ ser' = IF ser.idx < ser.n THEN [ser EXCEPT !.pc = "inter"]
              ELSE LoopHead([ser EXCEPT !.idx = ser.idx + 1])
    /\ UNCHANGED <<norm, sn, eng, last, run, pace, qual, loc, hdr, inp, links, fpr, dev, shr, walk>>

NextSerial ==
    \/ MainCalls
    \/ RequestStarts
    \/ RequestEnds
    \/ MainSleeps
    \/ MainWakes
    \/ MainRecords

SpecSerial == InitSerial /\ [][NextSerial]_vars


\* locator i of the page has a user object at its path: a container with a
\* user at the path, or some script of the scan in which the user is found
Yields(page, i) ==
    CASE i = 1 -> page.sigi.state = "path" /\ page.sigi.user # Nothing
      [] i = 2 -> page.universal.state = "path" /\ page.universal.user # Nothing
      [] i = 3 -> page.next.state = "path" /\ page.next.user # Nothing
      [] OTHER -> \E j \in 1..Len(page.scripts) :
                     page.scripts[j].state \in {"uniqueId", "userInfo"}

\* the user and the stats at the path of locator i, which yields
SubtreeAt(page, i) ==
    CASE i = 1 -> <<page.sigi.user, page.sigi.stats>>
      [] i = 2 -> <<page.universal.user, page.universal.stats>>
      [] i = 3 -> <<page.next.user, page.next.stats>>
      [] OTHER -> LET j == CHOOSE j \in 1..Len(page.scripts) :
                              /\ page.scripts[j].state \in {"uniqueId", "userInfo"}
                              /\ \A k \in 1..(j - 1) :
                                    page.scripts[k].state \notin {"uniqueId", "userInfo"}
                  IN  <<page.scripts[j].user, page.scripts[j].stats>>

\* C17: parseProfileFromHtml takes the user and the stats from the first of
\* SIGI_STATE, __UNIVERSAL_DATA_FOR_REHYDRATION__, __NEXT_DATA__ and the
\* script scan that has a user, reads no locator after that one, and throws
\* the extraction error, with no subtree, when none has a user.
C17_FirstLocatorWithUser ==
    loc.called =>
        IF \E i \in 1..4 : Yields(loc.page, i)
        THEN LET i == CHOOSE i \in 1..4 :
                         Yields(loc.page, i) /\ \A h \in 1..(i - 1) : ~Yields(loc.page, h)
             IN  /\ ~loc.result.threw
                 /\ <<loc.result.userData, loc.result.stats>> = SubtreeAt(loc.page, i)
                 /\ loc.result.read = SubSeq(Locators, 1, i)
        ELSE /\ loc.result.threw
             /\ loc.result.error = "Could not extract user data from page"
             /\ loc.result.userData = Nothing /\ loc.result.stats = Nothing
             /\ loc.result.read = Locators

\* SIGI_STATE has stats but no user, the next container cannot be parsed, and
\* the subtree comes from __NEXT_DATA__, without the stats of SIGI_STATE
C17_Witness ==
    /\ loc.called
    /\ loc.page.sigi.state = "path" /\ loc.page.sigi.stats # Nothing
    /\ loc.page.universal.state = "unparseable"
    /\ loc.result.userData = UserAt[3]
    /\ loc.result.stats = Nothing
    /\ loc.result.read = SubSeq(Locators, 1, 3)
    /\ Len(loc.page.scripts) > 0 /\ loc.page.scripts[1].state = "userInfo"


\* the OS family a user-agent of the pools names in its platform part
OsFamily(ua) ==
    CASE ua.os = "Windows" -> "Windows"
      [] ua.os = "Macintosh" -> "macOS"
      [] ua.os = "iPhone" -> "iOS"
      [] OTHER -> "Android"

\* C18: the Sec-Ch-Ua-Platform of a request names the OS family of the
\* user-agent that the request carries.
C18_PlatformMatchesUserAgent ==
    hdr.request.built =>
        hdr.request.headers.SecChUaPlatform = OsFamily(hdr.request.headers.UserAgent)

\* the same for the requests whose headers the later signer builds
C18_LaterSignerMatches ==
    (hdr.request.built /\ hdr.signer = "v2") =>
        hdr.request.headers.SecChUaPlatform = OsFamily(hdr.request.headers.UserAgent)


\* the calls of the engine whose request is on the network
InFlight == {i \in 1..Len(ser.calls) : ser.calls[i].phase = "flight"}

\* C19: at most one request of the engine is in flight, a call of the engine
\* is begun only when every call issued before it has returned or thrown, and
\* the start timestamps are non-decreasing in the order of issue.
C19_Serialized ==
    /\ Cardinality(InFlight) <= 1
    /\ Len(ser.calls) <= 1
    /\ \A i \in 1..Len(ser.calls) : ser.calls[i].issue = ser.issued
    /\ \A i, j \in 1..Len(ser.starts) :
          ser.starts[i].issue < ser.starts[j].issue => ser.starts[i].at <= ser.starts[j].at
    /\ ser.starts # <<>> => ser.lastRequestTime = ser.starts[Len(ser.starts)].at

\* a retry: the request of the second scrape is in flight, after the first
\* scrape, the backoff and the initSession of the catch, each started later
\* than the one before
C19_Witness ==
    /\ Len(ser.starts) = 4
    /\ ser.pc = "attempt" /\ ser.attempt = 2
    /\ InFlight = {1}
    /\ \A i \in 1..3 : ser.starts[i].at < ser.starts[i + 1].at


\* C20: a call of initSession, scrapeUserProfile or getUserDetailFromWeb
\* whose request times out throws to its caller.
C20_TimeoutThrows ==
    (last.op \in {"initSession", "scrapeUserProfile", "getUserDetailFromWeb"}
     /\ last.kind = "timeout")
        => last.threw

\* the same for scrapeUserProfile alone
C20_ScrapeTimeoutThrows ==
    (last.op = "scrapeUserProfile" /\ last.kind = "timeout")
        => (last.threw /\ last.error.type = "TimeoutError")


\* ------------------------------------------ the input of the later main

InitInput ==
    /\ \E n \in 0..MaxUsernames, m \in 0..MaxUrls, maxRetries \in {1, 2} :
          \E usernames \in [1..n -> RawUsernames], urls \in [1..m -> RawUrls] :
             inp = StartOfInput(usernames, urls, maxRetries)
    /\ norm = IdleNorm
    /\ sn = IdleSn
    /\ eng = IdleEng
    /\ last = IdleLast
    /\ run = IdleRun
    /\ pace = IdlePace
    /\ qual = IdleQual
    /\ loc = IdleLoc
    /\ hdr = IdleHdr
    /\ ser = IdleSer
    /\ links = IdleLinks
    /\ fpr = IdleFpr
    /\ dev = IdleDev
    /\ shr = IdleShr
    /\ walk = IdleWalk

\* the collection of the usernames, and the throw when none is valid
CollectUsernames ==
    /\ inp.pc = "collect"
    /\ \E u \in {uniqueUsernames(inp.usernames, inp.urls)} :
          inp' = [inp EXCEPT !.unique = u, !.pc = IF u = <<>> THEN "threw" ELSE "loop"]
    /\ UNCHANGED <<norm, sn, eng, last, run, pace, qual, loc, hdr, ser, links, fpr, dev, shr, walk>>

\* one turn of the loop over uniqueUsernames: scrapeUserProfile(username) is
\* called until it returns or maxRetries calls have thrown, and a profile
\* that was returned is pushed to the dataset
ProcessUsername ==
    /\ inp.pc = "loop"
    /\ inp.idx <= Len(inp.unique)
    /\ \E calls \in 1..inp.maxRetries, ok \in BOOLEAN :
          /\ ~ok => calls = inp.maxRetries
          /\ LET username == inp.unique[inp.idx]
             IN  inp' = [inp EXCEPT
                           !.processed = Append(inp.processed, username),
                           !.passed = inp.passed \o [i \in 1..calls |-> username],
                           !.dataset = IF ok THEN Append(inp.dataset, username)
                                       ELSE inp.dataset,
                           !.idx = inp.idx + 1]
    /\ UNCHANGED <<norm, sn, eng, last, run, pace, qual, loc, hdr, ser, links, fpr, dev, shr, walk>>

\* the loop is over
FinishInput ==
    /\ inp.pc = "loop"
    /\ inp.idx > Len(inp.unique)
    /\ inp' = [inp EXCEPT !.pc = "done"]
    /\ UNCHANGED <<norm, sn, eng, last, run, pace, qual, loc, hdr, ser, links, fpr, dev, shr, walk>>

NextInput == CollectUsernames \/ ProcessUsername \/ FinishInput

SpecInput == InitInput /\ [][NextInput]_vars

\* lowercase letters, digits, the dot and the underscore
LowerLetters == {"a", "b", "c", "1", ".", "_"}

\* how often x is in the list
Occurrences(list, x) == Cardinality({i \in 1..Len(list) : list[i] = x})

\* C21: each distinct username of the input is processed once and has one
\* record at most in the dataset, and every username passed to
\* scrapeUserProfile is lowercase, 2 to 30 characters long and made of
\* letters, digits, dots and underscores.
C21_DistinctValidUsernames ==
    /\ \A i \in 1..Len(inp.processed) : Occurrences(inp.processed, inp.processed[i]) = 1
    /\ \A i \in 1..Len(inp.dataset) : Occurrences(inp.dataset, inp.dataset[i]) = 1
    /\ \A i \in 1..Len(inp.passed) :
          /\ Len(inp.passed[i]) \in 2..30
          /\ \A k \in 1..Len(inp.passed[i]) : inp.passed[i][k] \in LowerLetters
    /\ inp.pc = "done" =>
          \A i \in 1..Len(inp.usernames) :
             LET name == cleanUsername(inp.usernames[i])
             IN  name # NoUsername => Occurrences(inp.processed, name) = 1

\* "@Ab", " aB " and the url of @Ab are one username, processed once
C21_Witness ==
    /\ inp.pc = "done"
    /\ inp.usernames = <<<<"@", "A", "b">>, <<" ", "a", "B", " ">>>>
    /\ inp.urls = <<<<"https://www.", "tiktok.com", "/", "@", "A", "b", "?", "c">>>>
    /\ inp.processed = <<<<"a", "b">>>>
    /\ inp.dataset = <<<<"a", "b">>>>


\* ------------------------------------------------------- the bio links

InitLinks ==
    /\ \E text \in Texts(MaxBio), bioLink \in LinkOptions :
          links = [IdleLinks EXCEPT
                     !.user = RawUser(JNull, IF text = <<>> THEN JNull ELSE JStr(text),
                                      bioLink, JNull)]
    /\ norm = IdleNorm
    /\ sn = IdleSn
    /\ eng = IdleEng
    /\ last = IdleLast
    /\ run = IdleRun
    /\ pace = IdlePace
    /\ qual = IdleQual
    /\ loc = IdleLoc
    /\ hdr = IdleHdr
    /\ ser = IdleSer
    /\ inp = IdleInp
    /\ fpr = IdleFpr
    /\ dev = IdleDev
    /\ shr = IdleShr
    /\ walk = IdleWalk

\* parseProfileFromHtml: bio, bioLink and bioLinks of the located user
CallExtractBioLinks ==
    /\ ~links.called
    /\ \E bio \in {extractBio(links.user)}, bioLink \in {extractBioLink(links.user)} :
          links' = [links EXCEPT !.called = TRUE, !.bio = bio, !.bioLink = bioLink,
                                 !.bioLinks = extractBioLinks(bio, bioLink)]
    /\ UNCHANGED <<norm, sn, eng, last, run, pace, qual, loc, hdr, ser, inp, fpr, dev, shr, walk>>

NextLinks == CallExtractBioLinks

SpecLinks == InitLinks /\ [][NextLinks]_vars

\* the places of a text where a URL begins: a "/" with no "/" before it in
\* its word
UrlStarts(text) ==
    {i \in 1..Len(text) :
        /\ text[i] = "/"
        /\ \A j \in 1..(i - 1) :
              (\A k \in j..(i - 1) : text[k] # " ") => text[j] # "/"}

\* the URL that begins at place i: up to the next space or the end
UrlAt(text, i) ==
    LET end == IF \E k \in i..Len(text) : text[k] = " "
               THEN (CHOOSE k \in i..Len(text) :
                        text[k] = " " /\ \A h \in i..(k - 1) : text[h] # " ") - 1
               ELSE Len(text)
    IN  SubSeq(text, i, end)

\* the first place of the text where the URL occurs
FirstPlace(text, url) ==
    CHOOSE i \in UrlStarts(text) :
        UrlAt(text, i) = url /\ \A j \in UrlStarts(text) : UrlAt(text, j) = url => i <= j

\* C22: bioLinks has no url twice; it has an official entry exactly when
\* bioLink is not null, which is then the first and has the url of bioLink;
\* every other entry is of type bio_text, its url occurs in the bio, and the
\* entries are in the order in which their urls first occur there.
C22_BioLinksDistinctOrdered ==
    links.called =>
        LET l    == links.bioLinks
            text == IF links.bio = JNull THEN <<>> ELSE links.bio.s
            from == IF links.bioLink = JNull THEN 1 ELSE 2
        IN  /\ \A i, j \in 1..Len(l) : l[i].url = l[j].url => i = j
            /\ links.bioLink # JNull =>
                  Len(l) >= 1 /\ l[1] = [url |-> links.bioLink.s, type |-> "official"]
            /\ \A i \in from..Len(l) :
                  /\ l[i].type = "bio_text"
                  /\ \E p \in UrlStarts(text) : UrlAt(text, p) = l[i].url
            /\ \A i, j \in from..Len(l) :
                  i < j => FirstPlace(text, l[i].url) < FirstPlace(text, l[j].url)
            /\ \A p \in UrlStarts(text) : \E i \in 1..Len(l) : l[i].url = UrlAt(text, p)

\* the bio is "/y /x", the official link is "/x": the list is the official
\* "/x", then "/y", and "/x" is not there a second time
C22_Witness ==
    /\ links.called
    /\ links.user.signature = JStr(<<"/", "y", " ", "/", "x">>)
    /\ links.user.bioLink = JLinkObject(<<"/", "x">>)
    /\ links.bioLinks = <<[url |-> <<"/", "x">>, type |-> "official"],
                          [url |-> <<"/", "y">>, type |-> "bio_text"]>>

\* ---------------------------------------------------------------- C23

\* new TikTokAPI(): the user agent and the device id are drawn
InitFingerprint ==
    /\ \E signer \in {"v1", "v2"}, ua \in FingerprintAgents, id \in DeviceIds :
          fpr = [signer |-> signer, userAgent |-> ua, deviceId |-> id,
                 requestCount |-> 0, rotations |-> 0, request |-> NoRequest]
    /\ norm = IdleNorm
    /\ sn = IdleSn
    /\ eng = IdleEng
    /\ last = IdleLast
    /\ run = IdleRun
    /\ pace = IdlePace
    /\ qual = IdleQual
    /\ loc = IdleLoc
    /\ hdr = IdleHdr
    /\ ser = IdleSer
    /\ inp = IdleInp
    /\ links = IdleLinks
    /\ dev = IdleDev
    /\ shr = IdleShr
    /\ walk = IdleWalk

\* scrapeUserProfile(username): buildHeaders draws the viewport width
SendProfileRequest ==
    /\ fpr.rotations <= MaxRotations
    /\ \E width \in FingerprintWidths, blocked \in BOOLEAN :
          \E r \in RotationDraws(fpr, blocked) :
             fpr' = [AfterResponse(fpr, blocked, r[1], r[2]) EXCEPT
                        !.request = SentRequest(fpr, "scrapeUserProfile", width, NoQuery)]
    /\ UNCHANGED <<norm, sn, eng, last, run, pace, qual, loc, hdr, ser, inp, links, dev, shr, walk>>

\* getUserDetailFromWeb(secUid): buildQueryParams and buildHeaders draw
SendDetailRequest ==
    /\ fpr.rotations <= MaxRotations
    /\ \E width \in FingerprintWidths, blocked \in BOOLEAN, query \in QueryDraws(fpr.signer) :
          \E r \in RotationDraws(fpr, blocked) :
             fpr' = [AfterResponse(fpr, blocked, r[1], r[2]) EXCEPT
                        !.request = SentRequest(fpr, "getUserDetailFromWeb", width, query)]
    /\ UNCHANGED <<norm, sn, eng, last, run, pace, qual, loc, hdr, ser, inp, links, dev, shr, walk>>

NextFingerprint == SendProfileRequest \/ SendDetailRequest

SpecFingerprint == InitFingerprint /\ [][NextFingerprint]_vars

\* the fingerprint values two requests both carry are the same
SameFingerprint(a, b) ==
    /\ a.headers.UserAgent = b.headers.UserAgent
    /\ a.headers.Cookie = b.headers.Cookie
    /\ a.headers.ViewportWidth = b.headers.ViewportWidth
    /\ (a.hasQuery /\ b.hasQuery => a.query = b.query)

\* the query of a request names the device and the platform of its headers
OneFingerprint(r) ==
    r.hasQuery => /\ r.query.device_id = r.headers.Cookie
                  /\ r.query.browser_platform = getBrowserPlatform(r.headers.UserAgent)

\* C23: between construction and the first rotation, and between two
\* rotations, every request carries the same user agent, device id, viewport
\* width, time zone and platform in its headers, cookies and query as the
\* request before it
C23_FingerprintFixedBetweenRotations ==
    [][(fpr.request.sent /\ fpr'.request.sent
          /\ fpr'.request.session = fpr.request.session)
       => SameFingerprint(fpr.request, fpr'.request) /\ OneFingerprint(fpr'.request)]_vars

\* ---------------------------------------------------------------- C24

\* the bytes crypto.randomBytes(8) gives
InitDeviceId ==
    /\ \E bytes \in [1..DeviceIdBytes -> ByteDraws] :
          dev = [bytes |-> bytes, called |-> FALSE, id |-> <<>>]
    /\ norm = IdleNorm
    /\ sn = IdleSn
    /\ eng = IdleEng
    /\ last = IdleLast
    /\ run = IdleRun
    /\ pace = IdlePace
    /\ qual = IdleQual
    /\ loc = IdleLoc
    /\ hdr = IdleHdr
    /\ ser = IdleSer
    /\ inp = IdleInp
    /\ links = IdleLinks
    /\ fpr = IdleFpr
    /\ shr = IdleShr
    /\ walk = IdleWalk

CallGenerateDeviceId ==
    /\ ~dev.called
    /\ dev' = [dev EXCEPT !.called = TRUE, !.id = generateDeviceId(dev.bytes)]
    /\ UNCHANGED <<norm, sn, eng, last, run, pace, qual, loc, hdr, ser, inp, links, fpr, shr, walk>>

NextDeviceId == CallGenerateDeviceId

SpecDeviceId == InitDeviceId /\ [][NextDeviceId]_vars

IsHexString(s) == \A i \in 1..Len(s) : \E k \in 1..16 : s[i] = HexDigits[k]

\* C24: every device id is "69" followed by exactly 17 hexadecimal
\* characters, 19 characters in all
C24_DeviceIdFormat ==
    dev.called => /\ Len(dev.id) = 19
                  /\ SubSeq(dev.id, 1, 2) = <<"6", "9">>
                  /\ Len(SubSeq(dev.id, 3, Len(dev.id))) = 17
                  /\ IsHexString(SubSeq(dev.id, 3, Len(dev.id)))

\* what generateDeviceId does give: "69" and the 16 hexadecimal digits of
\* the eight bytes
C24_SixteenDigits ==
    dev.called => /\ Len(dev.id) = 18
                  /\ dev.id = <<"6", "9">> \o toStringHex(dev.bytes)
                  /\ IsHexString(SubSeq(dev.id, 3, 18))

\* ---------------------------------------------------------------- C25

\* the brand and the version Sec-Ch-Ua has to carry for a user agent; a
\* Firefox or Safari user agent must get neither brand
BrandAgrees(ua, headers) ==
    CASE ua.browser = "Chrome" ->
            headers.SecChUa = "Google Chrome" /\ headers.SecChUaVersion = ua.version
      [] ua.browser = "Edg" ->
            headers.SecChUa = "Microsoft Edge" /\ headers.SecChUaVersion = ua.version
      [] OTHER -> headers.SecChUa \notin {"Google Chrome", "Microsoft Edge"}

\* C25: the Sec-Ch-Ua header the later signer builds for a user agent of its
\* pools names the browser family and the major version of that user agent:
\* Google Chrome for Chrome, Microsoft Edge for Edge, neither for Firefox
\* and Safari.
C25_BrandMatchesUserAgent ==
    (hdr.request.built /\ hdr.signer = "v2") =>
        BrandAgrees(hdr.request.headers.UserAgent, hdr.request.headers)

\* the same for every user agent but those of Edge
C25_BrandMatchesButForEdge ==
    (hdr.request.built /\ hdr.signer = "v2" /\ hdr.request.headers.UserAgent.browser # "Edg") =>
        BrandAgrees(hdr.request.headers.UserAgent, hdr.request.headers)

\* ---------------------------------------------------------------- C26

InitShared ==
    /\ \E ua \in FingerprintAgents : shr = StartOfShared(ua, 1)
    /\ norm = IdleNorm
    /\ sn = IdleSn
    /\ eng = IdleEng
    /\ last = IdleLast
    /\ run = IdleRun
    /\ pace = IdlePace
    /\ qual = IdleQual
    /\ loc = IdleLoc
    /\ hdr = IdleHdr
    /\ ser = IdleSer
    /\ inp = IdleInp
    /\ links = IdleLinks
    /\ fpr = IdleFpr
    /\ dev = IdleDev
    /\ walk = IdleWalk

\* a caller calls api.scrapeUserProfile(username)
CallerCalls ==
    /\ Len(shr.log) < MaxShared
    /\ \E c \in Callers, raw \in SerialDraws, latency \in SerialLatencies :
          /\ shr.callers[c].pc = "idle"
          /\ shr' = BeginShared(shr, c, getGaussianDelay(raw), latency)
    /\ UNCHANGED <<norm, sn, eng, last, run, pace, qual, loc, hdr, ser, inp, links, fpr, dev, walk>>

\* the timer of applyDelay fires for a call
SharedTimerFires ==
    /\ \E c \in Callers, latency \in SerialLatencies :
          /\ shr.callers[c].pc = "delay"
          /\ SharedDue(shr, shr.callers[c].at)
          /\ shr' = SendShared([shr EXCEPT !.now = shr.callers[c].at], c, latency)
    /\ UNCHANGED <<norm, sn, eng, last, run, pace, qual, loc, hdr, ser, inp, links, fpr, dev, walk>>

\* the response of a request arrives: the block check, the count, the
\* rotation at the threshold, and the return to the caller
SharedResponse ==
    /\ \E c \in Callers, blocked \in BOOLEAN :
          /\ shr.callers[c].pc = "flight"
          /\ SharedDue(shr, shr.callers[c].at)
          /\ \E r \in RotationDraws(shr, blocked) :
                shr' = [AfterResponse(shr, blocked, r[1], r[2]) EXCEPT
                           !.now = shr.callers[c].at, !.callers[c] = IdleCaller]
    /\ UNCHANGED <<norm, sn, eng, last, run, pace, qual, loc, hdr, ser, inp, links, fpr, dev, walk>>

NextShared == CallerCalls \/ SharedTimerFires \/ SharedResponse

SpecShared == InitShared /\ [][NextShared]_vars

\* the request of call j was sent less than the delay j sampled after the
\* request of call i, which was sent before it
TooSoon(i, j) ==
    /\ shr.log[i].started /\ shr.log[j].started
    /\ \E a, b \in 1..Len(shr.starts) : a < b /\ shr.starts[a] = i /\ shr.starts[b] = j
    /\ shr.log[j].start - shr.log[i].start < shr.log[j].delay

\* the calls i and j were inside applyDelay at the same time
WaitedTogether(i, j) ==
    \/ i \in shr.log[j].waiting
    \/ j \in shr.log[i].waiting

\* C26: nothing in the engine keeps two calls of scrapeUserProfile apart.
\* A request is sent less than its sampled delay after an earlier one only
\* when the two calls were waiting in applyDelay at the same time; calls
\* that are made one after the other keep the delay.
C26_PacedUnlessTogether ==
    \A i, j \in 1..Len(shr.log) : TooSoon(i, j) => WaitedTogether(i, j)

\* two callers have passed applyDelay against the same lastRequestTime:
\* their requests are in flight at once, carry the same user agent and
\* device id, and were sent less than the sampled delay apart
C26_Witness ==
    \E i, j \in 1..Len(shr.log) :
        /\ TooSoon(i, j)
        /\ shr.log[i].caller # shr.log[j].caller
        /\ shr.log[i].read = shr.log[j].read
        /\ shr.callers[shr.log[i].caller] = [pc |-> "flight", at |-> shr.callers[shr.log[i].caller].at, k |-> i]
        /\ shr.callers[shr.log[j].caller] = [pc |-> "flight", at |-> shr.callers[shr.log[j].caller].at, k |-> j]
        /\ shr.log[i].userAgent = shr.log[j].userAgent
        /\ shr.log[i].deviceId = shr.log[j].deviceId

\* ---------------------------------------------------------------- C27

\* JSON.parse(content) of a script and the username that is looked for
InitWalk ==
    /\ \E data \in ParsedScripts, username \in {"bob", "eve"} :
          walk = [data |-> data, username |-> username, called |-> FALSE,
                  result |-> NotFound]
    /\ norm = IdleNorm
    /\ sn = IdleSn
    /\ eng = IdleEng
    /\ last = IdleLast
    /\ run = IdleRun
    /\ pace = IdlePace
    /\ qual = IdleQual
    /\ loc = IdleLoc
    /\ hdr = IdleHdr
    /\ ser = IdleSer
    /\ inp = IdleInp
    /\ links = IdleLinks
    /\ fpr = IdleFpr
    /\ dev = IdleDev
    /\ shr = IdleShr

\* const found = findUserData(data, username)
CallFindUserData ==
    /\ ~walk.called
    /\ walk' = [walk EXCEPT !.called = TRUE,
                            !.result = findUserDataIn(walk.data, walk.username, 0)]
    /\ UNCHANGED <<norm, sn, eng, last, run, pace, qual, loc, hdr, ser, inp, links, fpr, dev, shr>>

NextWalk == CallFindUserData

SpecWalk == InitWalk /\ [][NextWalk]_vars

RECURSIVE PreOrder(_, _)
RECURSIVE PreOrderKeys(_, _, _)

\* every value of a JSON value with its depth, in depth-first pre-order
PreOrder(v, depth) == <<[val |-> v, depth |-> depth]>> \o PreOrderKeys(v, depth, 1)

PreOrderKeys(v, depth, i) ==
    IF i > Len(v.props) THEN <<>>
    ELSE PreOrder(v.props[i].val, depth + 1) \o PreOrderKeys(v, depth, i + 1)

\* the values at most 11 levels below the root, the ones a walk can be
\* called on
Reachable(data) == SelectSeq(PreOrder(data, 0), LAMBDA e : e.depth <= 11)

\* a node whose uniqueId is the username
HasUniqueId(v, username) == Get(v, "uniqueId") = Txt(username)

\* a node whose unique_id is the username
HasSnakeId(v, username) == Get(v, "unique_id") = Txt(username)

\* a node whose userInfo.user.uniqueId is the username
HasUserInfo(v, username) == Get(Get(Get(v, "userInfo"), "user"), "uniqueId") = Txt(username)

\* what the walk has to return when the entries of `at` are the matches:
\* the first of them, and no call after it
FirstOf(data, username, at) ==
    IF at = {} THEN [NotFound EXCEPT !.calls = Len(Reachable(data))]
    ELSE LET p == CHOOSE q \in at : \A r \in at : q <= r
             v == Reachable(data)[p].val
         IN  IF HasUniqueId(v, username) \/ HasSnakeId(v, username)
             THEN [found |-> TRUE, user |-> v, stats |-> Nil, calls |-> p]
             ELSE [found |-> TRUE, user |-> Get(Get(v, "userInfo"), "user"),
                   stats |-> Get(Get(v, "userInfo"), "stats"), calls |-> p]

\* the objects at most 10 levels below the root
Nodes(data) ==
    {p \in 1..Len(Reachable(data)) :
        Reachable(data)[p].depth <= 10 /\ Reachable(data)[p].val.t = "object"}

\* C27 as stated: the walk ends, and returns the first node in depth-first
\* pre-order, at most 10 levels below the root, whose uniqueId or whose
\* userInfo.user.uniqueId is the username, calling nothing after it; null
\* when there is none
C27_Original ==
    walk.called =>
        walk.result = FirstOf(walk.data, walk.username,
                              {p \in Nodes(walk.data) :
                                  LET v == Reachable(walk.data)[p].val
                                  IN  HasUniqueId(v, walk.username)
                                      \/ HasUserInfo(v, walk.username)})

\* C27: the walk ends, and returns the first node in depth-first pre-order,
\* at most 10 levels below the root, whose uniqueId or unique_id is the
\* username (with stats null) or whose userInfo.user.uniqueId is the
\* username (with userInfo.stats), calling nothing after it; null when there
\* is none
C27_FirstMatchWithinDepth ==
    walk.called =>
        walk.result = FirstOf(walk.data, walk.username,
                              {p \in Nodes(walk.data) :
                                  LET v == Reachable(walk.data)[p].val
                                  IN  HasUniqueId(v, walk.username)
                                      \/ HasSnakeId(v, walk.username)
                                      \/ HasUserInfo(v, walk.username)})

\* a match 10 levels below the root is returned although a later key of the
\* root holds another
C27_Witness ==
    /\ walk.called /\ walk.result.found
    /\ Get(walk.result.user, "nickname") = Txt("x")
    /\ \E p \in Nodes(walk.data) :
          /\ Reachable(walk.data)[p].depth = 10
          /\ p = walk.result.calls
    /\ HasUniqueId(Get(walk.data, "b"), walk.username)

\* ---------------------------------------------------------------- C28

\* the request of the call that has just ended got a response that the block
\* detection let through
PassedBlockDetection(ret) ==
    ret.kind = "response" /\ ~isBlocked(ret.status, ret.blockText)

\* C28: between calls requestCount is between 0 and 49, and it is the number
\* of requests that passed the block detection since the construction or the
\* last rotation: a call of initSession, scrapeUserProfile, getSecUid or
\* getUserDetailFromWeb adds one exactly when its request passed, the 50th
\* sets it back to 0, and a call that failed or was blocked leaves it.
C28_RequestCountCountsPassed ==
    /\ [](eng.requestCount \in 0..(RotationThreshold - 1))
    /\ [][eng'.requestCount =
              IF PassedBlockDetection(last')
              THEN (IF eng.requestCount + 1 >= RotationThreshold THEN 0
                    ELSE eng.requestCount + 1)
              ELSE eng.requestCount]_vars

\* after a rotation two requests have passed, and a blocked getSecUid has
\* left the count at 2
C28_Witness ==
    /\ eng.rotations = 1 /\ eng.requestCount = 2
    /\ last.op = "getSecUid" /\ last.kind = "response"
    /\ isBlocked(last.status, last.blockText)

\* ---------------------------------------------------------------- C29

\* C29: in every profile createdAt is null exactly when accountAgeDays is
\* null, whatever the raw createTime is.
C29_CreatedAtAgreesWithAge ==
    \A i \in 1..Len(qual.outs) :
        (qual.outs[i].profile.createdAt = JNull)
            <=> (qual.outs[i].profile.accountAgeDays = JNull)

\* the two agree for a createTime that is absent, 0, or a number of seconds
\* that is a date not later than the time of the call
C29_AgreesForPastNumbers ==
    \A i \in 1..Len(qual.outs) :
        (\/ ~JsTruthy(qual.user.createTime)
         \/ /\ qual.user.createTime.t = "num"
            /\ DateOfNumber(qual.user.createTime.n).valid
            /\ DateOfNumber(qual.user.createTime.n).sec <= qual.outs[i].at)
        => ((qual.outs[i].profile.createdAt = JNull)
                <=> (qual.outs[i].profile.accountAgeDays = JNull))

\* ---------------------------------------------------------------- C30

\* the username of the returned profile: userData.uniqueId || username
usernameField(uniqueId, username) == IF uniqueId # "" THEN uniqueId ELSE username

\* the uniqueId of the user objects of a page: that of the requested user,
\* that of another user, or none (""); findUserData takes an object of a
\* script only when its uniqueId, or with no uniqueId its unique_id, is the
\* username
UniqueIds(username) ==
    {f \in [1..Len(UserAt) -> {username, "eve", ""}] :
        \A i \in 4..Len(UserAt) : f[i] \in {username, ""}}

\* the uniqueId of the user object at a place of the page
UniqueIdAt(uniqueIds, user) ==
    uniqueIds[CHOOSE i \in 1..Len(UserAt) : UserAt[i] = user]

\* the pages whose containers, where they have the path, have a user and
\* stats, with at most one script for the scan
OwnedPages ==
    {p \in Pages :
        /\ Len(p.scripts) <= 1
        /\ \A c \in {p.sigi, p.universal, p.next} :
              c.state \in {"absent", "noPath"}
              \/ (c.state = "path" /\ c.user # Nothing /\ c.stats # Nothing)}

\* the page that is the response to the request for @bob
InitOwner ==
    /\ \E page \in OwnedPages, uniqueIds \in UniqueIds("bob") :
          loc = [page |-> page, called |-> FALSE, result |-> NoResult,
                 uniqueIds |-> uniqueIds, requested |-> "bob", username |-> ""]
    /\ norm = IdleNorm
    /\ sn = IdleSn
    /\ eng = IdleEng
    /\ last = IdleLast
    /\ run = IdleRun
    /\ pace = IdlePace
    /\ qual = IdleQual
    /\ hdr = IdleHdr
    /\ ser = IdleSer
    /\ inp = IdleInp
    /\ links = IdleLinks
    /\ fpr = IdleFpr
    /\ dev = IdleDev
    /\ shr = IdleShr
    /\ walk = IdleWalk

\* parseProfileFromHtml(html, username): the user object is located and the
\* username field of the profile is set
ParseOwnedPage ==
    /\ ~loc.called
    /\ \E r \in {LocateUserData(loc.page)} :
          loc' = [loc EXCEPT
                    !.called = TRUE, !.result = r,
                    !.username = IF r.threw THEN ""
                                 ELSE usernameField(UniqueIdAt(loc.uniqueIds, r.userData),
                                                    loc.requested)]
    /\ UNCHANGED <<norm, sn, eng, last, run, pace, qual, hdr, ser, inp, links, fpr, dev, shr, walk>>

NextOwner == ParseOwnedPage

SpecOwner == InitOwner /\ [][NextOwner]_vars

\* C30: the user object a returned profile is built from has the requested
\* username as its uniqueId, or no uniqueId, whichever container it was
\* taken from, and the username of the profile is the requested one.
C30_ProfileOfRequestedUser ==
    (loc.called /\ ~loc.result.threw) =>
        /\ UniqueIdAt(loc.uniqueIds, loc.result.userData) \in {loc.requested, ""}
        /\ loc.username = loc.requested

\* the same for the profiles built from what the scan of the scripts found
C30_ScanFindsRequestedUser ==
    (loc.called /\ ~loc.result.threw
       /\ loc.result.userData \in {UserAt[i] : i \in 4..Len(UserAt)}) =>
        /\ UniqueIdAt(loc.uniqueIds, loc.result.userData) \in {loc.requested, ""}
        /\ loc.username = loc.requested

====
